---- MODULE Spec2Model ----
(***************************************************************************)
(* Source-filter GaP-NMF (src/code/sf_gap_nmf.py) and its moment library   *)
(* (src/code/_gap.py, src/code/gamma_gvpl.py).                             *)
(*                                                                         *)
(* Numbers.  A Python float is a decimal floating-point value m * 10^e     *)
(* with a mantissa of Prec digits, plus +inf, -inf and nan.  Thresholds of *)
(* the source (1e-200, 1e-100, 1e-12, 1e-6) are therefore written as they  *)
(* are.  Results are rounded towards zero to Prec digits.                  *)
(*                                                                         *)
(* Arrays.  The engine is modelled for one frequency bin, one time frame   *)
(* and one dictionary atom (F = T = L = 1), so an F x K, K x T, L x K or   *)
(* F x L x K array is a function of the component index k in 0..K-1.  The  *)
(* sums over the other cells of the spectrogram that enter the rho and tau *)
(* updates (np.dot(xbarinv, ...), np.dot(xxtwidinvsq, ...)) depend on the  *)
(* data and are inputs of the update actions, drawn from small sets.       *)
(***************************************************************************)
EXTENDS Integers, Sequences, FiniteSets, TLC

\* Significant decimal digits kept by the arithmetic.
Prec == 3

\* Number of NMF components of the engine (constructor argument K).
K == 3

(***************************************************************************)
(* Decimal floating point                                                  *)
(***************************************************************************)
RECURSIVE Pow10(_)
Pow10(n) == IF n = 0 THEN 1 ELSE 10 * Pow10(n - 1)

AbsI(i) == IF i < 0 THEN -i ELSE i

\* Integer division rounding towards zero.
Quot(a, d) == IF a < 0 THEN -((-a) \div d) ELSE a \div d

SignI(i) == IF i < 0 THEN -1 ELSE IF i > 0 THEN 1 ELSE 0

Inf == [m |-> 1, e |-> 100000]
NegInf == [m |-> -1, e |-> 100000]
NaN == [m |-> 0, e |-> 100000]
Zero == [m |-> 0, e |-> 0]
IsFinite(x) == x.e # 100000

RECURSIVE Norm(_, _)
Norm(m, e) ==
    IF m = 0 THEN Zero
    ELSE IF AbsI(m) >= Pow10(Prec) THEN Norm(Quot(m, 10), e + 1)
    ELSE IF m % 10 = 0 THEN Norm(Quot(m, 10), e + 1)
    ELSE [m |-> m, e |-> e]

\* The float literal m * 10^e.
Fl(m, e) == Norm(m, e)
One == Fl(1, 0)

Neg(x) == [m |-> -x.m, e |-> x.e]

Mul(x, y) ==
    IF x = NaN \/ y = NaN THEN NaN
    ELSE IF ~IsFinite(x) \/ ~IsFinite(y)
         THEN (IF x.m = 0 \/ y.m = 0 THEN NaN
               ELSE IF SignI(x.m) * SignI(y.m) > 0 THEN Inf ELSE NegInf)
    ELSE Norm(x.m * y.m, x.e + y.e)

\* numpy division: x / 0 is +-inf (nan for 0 / 0), x / inf is 0.
Div(x, y) ==
    IF x = NaN \/ y = NaN THEN NaN
    ELSE IF ~IsFinite(x)
         THEN (IF ~IsFinite(y) THEN NaN
               ELSE IF SignI(x.m) * (IF y.m < 0 THEN -1 ELSE 1) > 0 THEN Inf ELSE NegInf)
    ELSE IF ~IsFinite(y) THEN Zero
    ELSE IF y.m = 0
         THEN (IF x.m = 0 THEN NaN ELSE IF x.m > 0 THEN Inf ELSE NegInf)
    ELSE LET k == 9 - Prec
             q == (AbsI(x.m) * Pow10(k)) \div AbsI(y.m)
         IN  Norm(SignI(x.m) * SignI(y.m) * q, x.e - y.e - k)

Add(x, y) ==
    IF x = NaN \/ y = NaN THEN NaN
    ELSE IF ~IsFinite(x) THEN (IF ~IsFinite(y) /\ y # x THEN NaN ELSE x)
    ELSE IF ~IsFinite(y) THEN y
    ELSE IF x.m = 0 THEN y
    ELSE IF y.m = 0 THEN x
    ELSE LET gap == 8 - Prec
         IN  IF x.e - y.e > gap THEN x
             ELSE IF y.e - x.e > gap THEN y
             ELSE LET e0 == IF x.e < y.e THEN x.e ELSE y.e
                  IN  Norm(x.m * Pow10(x.e - e0) + y.m * Pow10(y.e - e0), e0)

Sub(x, y) == Add(x, Neg(y))

\* Comparisons; every comparison with nan is false.
Lt(x, y) ==
    IF x = NaN \/ y = NaN THEN FALSE
    ELSE IF x = y THEN FALSE
    ELSE IF x = Inf \/ y = NegInf THEN FALSE
    ELSE IF y = Inf \/ x = NegInf THEN TRUE
    ELSE Sub(x, y).m < 0
Gt(x, y) == Lt(y, x)
Le(x, y) == IF x = NaN \/ y = NaN THEN FALSE ELSE x = y \/ Lt(x, y)
Ge(x, y) == Le(y, x)

AbsF(x) == IF x = NaN THEN NaN ELSE IF x.m < 0 THEN Neg(x) ELSE x

RECURSIVE ISqrtBetween(_, _, _)
ISqrtBetween(n, lo, hi) ==
    IF lo >= hi THEN lo
    ELSE LET mid == (lo + hi + 1) \div 2
         IN  IF mid * mid <= n THEN ISqrtBetween(n, mid, hi)
             ELSE ISqrtBetween(n, lo, mid - 1)

\* np.sqrt of a non-negative float.
Sqrt(x) ==
    IF x = NaN \/ x = NegInf THEN NaN
    ELSE IF x = Inf THEN Inf
    ELSE IF x.m < 0 THEN NaN
    ELSE IF x.m = 0 THEN Zero
    ELSE LET j == IF (x.e - 4) % 2 = 0 THEN 4 ELSE 5
         IN  Norm(ISqrtBetween(x.m * Pow10(j), 0, 46340), (x.e - j) \div 2)

RECURSIVE Digits(_)
Digits(a) == IF a < 10 THEN 1 ELSE 1 + Digits(a \div 10)

\* A float64 holds magnitudes up to about 1.797e308: whether m * 10^e is
\* beyond them.
Overflows(m, e) ==
    LET top == e + Digits(AbsI(m)) - 1
    IN  \/ top > 308
        \/ top = 308 /\ (AbsI(m) * 10) \div Pow10(Digits(AbsI(m)) - 1) >= 18

\* The float64 of a sum: inf beyond the range.  The products and quotients of
\* the modelled inputs stay inside the range; the sum of a vector of large
\* entries is where it is exceeded.
Float64(x) ==
    IF x.e > 300 /\ IsFinite(x) /\ Overflows(x.m, x.e)
    THEN [m |-> SignI(x.m), e |-> 100000]
    ELSE x

RECURSIVE SumOver(_, _)
\* np.sum of the entries v[i], i in S, added in increasing index order.
SumOver(v, S) ==
    IF S = {} THEN Zero
    ELSE LET i == CHOOSE j \in S : \A l \in S : l <= j
         IN  Float64(Add(SumOver(v, S \ {i}), v[i]))

(***************************************************************************)
(* _gap.py: moments of the GIG and Gamma distributions                     *)
(***************************************************************************)
\* Index sets of _gap.compute_gig_expectations: the element masks
\* gig_inds = (gamma > 1e-200) and gam_inds = (gamma <= 1e-200).
gig_inds(gamma_) == {i \in DOMAIN gamma_ : Gt(gamma_[i], Fl(1, -200))}

gam_inds_strict(gamma_) == {i \in DOMAIN gamma_ : Lt(gamma_[i], Fl(1, -200))}
gam_inds(gamma_) == {i \in DOMAIN gamma_ : Le(gamma_[i], Fl(1, -200))}

\* scipy.special.kve(v, z) for the half-integer orders, up to the factor
\* sqrt(pi / (2 z)) that all orders share at the same z and that cancels in
\* the two ratios compute_gig_expectations forms:
\*   K_{1/2}(z) e^z ~ 1,  K_{3/2}(z) e^z ~ 1 + 1/z,
\*   K_{5/2}(z) e^z ~ 1 + 3/z + 3/z^2,  K_{-v} = K_v.
\* Other orders have no closed form and are outside the modelled inputs.
kve(v, z) ==
    CASE AbsF(v) = Fl(5, -1) -> One
      [] AbsF(v) = Fl(15, -1) -> Add(One, Div(One, z))
      [] AbsF(v) = Fl(25, -1) ->
            Add(Add(One, Div(Fl(3, 0), z)), Div(Fl(3, 0), Mul(z, z)))

\* The GIG branch for one element (lines 29-41).
GigBranch(alpha_, beta_, gamma_) ==
    LET Ratios(bessel_alpha_minus, bessel_alpha, bessel_alpha_plus, sqrt_ratio) ==
            [Ex |-> Div(Mul(bessel_alpha_plus, sqrt_ratio), bessel_alpha),
             Exinv |-> Div(bessel_alpha_minus, Mul(sqrt_ratio, bessel_alpha))]
        Bessel(z, sqrt_ratio) ==
            Ratios(kve(Sub(alpha_, One), z), kve(alpha_, z),
                   kve(Add(alpha_, One), z), sqrt_ratio)
        Roots(sqrt_beta, sqrt_gamma) ==
            Bessel(Mul(Mul(Fl(2, 0), sqrt_beta), sqrt_gamma),
                   Div(sqrt_gamma, sqrt_beta))
    IN  Roots(Sqrt(beta_), Sqrt(gamma_))

\* The Gamma branch for one element (lines 45-46).
GammaBranch(alpha_, beta_) ==
    [Ex |-> Div(alpha_, beta_), Exinv |-> Div(beta_, Sub(alpha_, One))]

\* The precondition check of lines 25-26.
GigRaisesAnyNegative(alpha_, gamma_) == \E i \in DOMAIN alpha_ : Lt(alpha_[i], Zero)
GigRaises(alpha_, gamma_) == \E i \in gam_inds(gamma_) : Lt(alpha_[i], Zero)

\* Exinv[Exinv < 0] = np.inf (line 47).
ClampExinv(x) == IF Lt(x, Zero) THEN Inf ELSE x

\* _gap.compute_gig_expectations(alpha, beta, gamma) on arrays with the index
\* set DOMAIN beta; alpha is already broadcast to that shape (line 15).
compute_gig_expectations(alpha_, beta_, gamma_) ==
    LET D == DOMAIN beta_
        Masked(gig, gam) ==
            LET At(i) == IF i \in gam THEN GammaBranch(alpha_[i], beta_[i])
                         ELSE IF i \in gig
                              THEN GigBranch(alpha_[i], beta_[i], gamma_[i])
                              ELSE [Ex |-> Zero, Exinv |-> Zero]
            IN  [err |-> "none",
                 Ex |-> [i \in D |-> At(i).Ex],
                 Exinv |-> [i \in D |-> ClampExinv(At(i).Exinv)]]
    IN  IF GigRaises(alpha_, gamma_)
        THEN [err |-> "ValueError"]
        ELSE Masked(gig_inds(gamma_), gam_inds(gamma_))

\* The scalar alpha * np.ones_like(beta) of line 15.
Broadcast(a, D) == [i \in D |-> a]

\* psi(alpha) - log(beta) is kept as the pair of its arguments.
compute_gamma_expectation(alpha_, beta_) ==
    [Ex |-> Div(alpha_, beta_), Elogx |-> [psi |-> alpha_, log |-> beta_]]

(***************************************************************************)
(* comp_log_exp: log E[exp(-a u)], a ~ Gamma(alpha, beta)                  *)
(***************************************************************************)
\* (-alpha * np.log(1. + tmp)) is kept as coefficient and argument of the log;
\* (-alpha * np.log1p(tmp)) likewise with the argument of log1p.
LogTerm(alpha_, tmp) == [coef |-> Neg(alpha_), log |-> Add(One, tmp)]
Log1pTerm(alpha_, tmp) == [coef |-> Neg(alpha_), log1p |-> tmp]
Uninit == [uninit |-> TRUE]

\* The masks of _gap.comp_log_exp (lines 63-67) for one element tmp = U / beta.
idx(tmp) == Gt(tmp, Fl(-1, 0))
idx_dir(tmp) == idx(tmp) /\ Gt(AbsF(tmp), Fl(1, -12))
idx_app_strict(tmp) == Lt(AbsF(tmp), Fl(1, -12))
idx_app(tmp) == Le(AbsF(tmp), Fl(1, -12))

\* _gap.comp_log_exp for one element: np.empty_like, then the three masked
\* assignments in the order of lines 68-70.
comp_log_exp(alpha_, beta_, U_) ==
    LET tmp == Div(U_, beta_)
        v0 == Uninit
        v1 == IF idx_dir(tmp) THEN LogTerm(alpha_, tmp) ELSE v0
        v2 == IF idx_app(tmp) THEN Mul(Neg(alpha_), tmp) ELSE v1
    IN  IF ~idx(tmp) THEN Inf ELSE v2   \* log_exp[-idx]: -idx negates the mask

\* gamma_gvpl.comp_log_exp for one element (lines 441-445).
idx_gvpl(tmp) == Gt(tmp, Fl(-1, 0))
comp_log_exp_gvpl(alpha_, beta_, U_) ==
    LET tmp == Div(U_, beta_)
        v0 == Uninit
        v1 == IF idx_gvpl(tmp) THEN Log1pTerm(alpha_, tmp) ELSE v0
    IN  IF ~idx_gvpl(tmp) THEN Inf ELSE v1

(***************************************************************************)
(* SF_GaP_NMF.goodk                                                        *)
(***************************************************************************)
Range(f) == {f[i] : i \in DOMAIN f}

MaxOf(S) == CHOOSE i \in S : \A j \in S : j <= i

\* np.flipud of a sequence.
flipud(s) == [i \in 1..Len(s) |-> s[Len(s) + 1 - i]]

\* np.argsort(v) of an array v indexed 0..n-1: the index permutations that
\* list v in ascending order.  The order of equal entries is not specified by
\* the sort, so each is a result.
argsort(v) ==
    LET n == Cardinality(DOMAIN v)
    IN  {p \in {[i \in 1..n |-> q[i] - 1] : q \in Permutations(1..n)} :
            \A i \in 1..(n - 1) : Le(v[p[i]], v[p[i + 1]])}

\* The default cut_off of goodk (line 249).
cut_off_tenth == Fl(1, -1)
cut_off_default == Fl(1, -6)

\* The threshold cut_off * np.sum(self.Et) of line 261.
goodk_threshold_max(Et_, cut_off) ==
    Mul(cut_off, Et_[CHOOSE i \in DOMAIN Et_ : \A j \in DOMAIN Et_ : Le(Et_[j], Et_[i])])
goodk_threshold(Et_, cut_off) == Mul(cut_off, SumOver(Et_, DOMAIN Et_))

\* Lines 260-263, for the result perm of np.argsort(self.Et).  idx[-1] of an
\* empty idx raises IndexError.
goodk(Et_, cut_off, perm) ==
    LET Prefix(sorted, where) ==
            IF where = {}
            THEN [err |-> "IndexError"]
            ELSE [err |-> "none", goodk |-> SubSeq(sorted, 1, MaxOf(where))]
        Where(sorted, threshold) ==
            Prefix(sorted, {q \in 1..Len(sorted) : Gt(Et_[sorted[q]], threshold)})
    IN  Where(flipud(perm), goodk_threshold(Et_, cut_off))

(***************************************************************************)
(* SF_GaP_NMF: state                                                       *)
(***************************************************************************)
VARIABLES
    X,                                   \* self.X, the engine's copy of the spectrogram
    args,                                \* the caller's arrays X, U, gamma, alpha passed to __init__
    U, alpha, gamma, b, beta,            \* inputs and prior constants
    rhow, tauw, rhoh, tauh, rhot, taut,  \* GIG natural parameters of W, H, Theta
    nua, rhoa,                           \* Gamma natural parameters of a
    Ew, Ewinv, Ewinvinv,                 \* cached moments
    Eh, Ehinv, Ehinvinv,
    Et, Etinv, Etinvinv,
    Ea, Eloga, logEexpa,
    pc,          \* position inside update(); "idle" between calls
    loop_goodk,  \* the local goodk of update() (line 94)
    loop_i,      \* position of the for loop of lines 95-96 in loop_goodk
    log,         \* the steps the current or last update() call has finished
    last,        \* the operation that returned last, with the goodk it used
    end_goodk,   \* goodk() at the end of the last two update() calls
    call         \* the last call of a library function: arguments and result

inputVars == <<X, args, U, alpha, gamma, b, beta>>
wVars == <<rhow, tauw, Ew, Ewinv, Ewinvinv>>
hVars == <<rhoh, tauh, Eh, Ehinv, Ehinvinv>>
tVars == <<rhot, taut, Et, Etinv, Etinvinv>>
aVars == <<nua, rhoa, Ea, Eloga, logEexpa>>
ctlVars == <<pc, loop_goodk, loop_i, log, last, end_goodk>>
engineVars == <<inputVars, wVars, hVars, tVars, aVars, ctlVars>>

\* The dictionary-prior engine SF_Dict of src/dict_prior.py and the process-wide
\* generator np.random it and the other engines draw from.
VARIABLES
    phi,            \* variational parameters: phi.mu[l][t] and phi.r[l][t]
    EA,             \* EA[l]: the moments (EA, EA2, ElogA)[:, l], as the (mu, r) they were computed from
    model,          \* model parameters U, alpha, gamma
    old_mu_inc, old_r_inc,                    \* increments kept by vb_e
    old_U_inc, old_gamma_inc, old_alpha_inc,  \* increments kept by vb_m
    dpc,            \* position inside vb_e / update_phi; "idle" between calls
    vb_args,        \* arguments of the running or last call of vb_e or vb_m
    loop,           \* loop.i, loop.l, loop.t: the loop variables of vb_e and update_phi
    Eres,           \* the local Eres of the running update_phi
    run,            \* what the running or last call has done so far
    rng,            \* state of the process-wide generator np.random
    built,          \* the engines constructed so far: class, seed, initial parameters
    gvpl            \* the engine SF_Dict of src/code/gamma_gvpl.py

oldIncVars == <<old_mu_inc, old_r_inc, old_U_inc, old_gamma_inc, old_alpha_inc>>
dictVars == <<phi, EA, model, oldIncVars, dpc, vb_args, loop, Eres, run, rng, built, gvpl>>
vars == <<engineVars, call, dictVars>>

Ks == 0..(K - 1)
NoCall == [fn |-> "none"]

\* The prior shape of Theta, self.beta / self.K (lines 82, 246).
ThetaShape == Div(beta, Fl(K, 0))

\* self.Ewinvinv = 1. / self.Ewinv and its like (lines 77, 81, 85, 205, 228, 247).
Reciprocal(v) == [i \in DOMAIN v |-> Div(One, v[i])]

\* f with the entries of g written at the indices S (numpy f[S] = g).
Assign(f, S, g) == [i \in DOMAIN f |-> IF i \in S THEN g[i] ELSE f[i]]
Restrict(f, S) == [i \in S |-> f[i]]

\* The set of components goodk() returns for the cached Et, with the default
\* cut_off; it does not depend on the order argsort gives equal entries.
GoodkResult == goodk(Et, cut_off_default, CHOOSE q \in argsort(Et) : TRUE)
GoodkSet == Range(GoodkResult.goodk)

\* self.tauw[self.tauw < 1e-100] = 0 (lines 193, 223, 244): the whole array.
ClampAt200(tau_) == [i \in DOMAIN tau_ |-> IF Lt(tau_[i], Fl(1, -200)) THEN Zero ELSE tau_[i]]
ClampTau(tau_) == [i \in DOMAIN tau_ |-> IF Lt(tau_[i], Fl(1, -100)) THEN Zero ELSE tau_[i]]

\* np.exp(np.sum(self.logEexpa[:, :, k], axis=1)) for the one atom (line 187):
\* exp(0) = 1, exp(coef * log(x)) = 1 / x^(-coef) for an integer coefficient,
\* exp(v) = 1 + v to working precision for the |v| of the linear branch.
RECURSIVE PowF(_, _)
PowF(x, n) == IF n = 0 THEN One ELSE Mul(x, PowF(x, n - 1))
ExpOf(v) ==
    IF "log" \in DOMAIN v
    THEN Div(One, PowF(v.log, (-v.coef.m) * Pow10(v.coef.e)))
    ELSE IF v = Inf THEN Inf
    ELSE IF v = Zero THEN One
    ELSE Add(One, v)

(***************************************************************************)
(* Inputs of the model                                                     *)
(***************************************************************************)
\* Draws of 10000 * np.random.gamma(smoothness, 1. / smoothness) in _init: any
\* positive float; a small smoothness spreads them over hundreds of decades.
InitTau == {Fl(1, -146), Fl(1, 4)}
InitTheta == {[rho |-> Fl(3, 4), tau |-> Fl(1, 4)],
              [rho |-> Fl(3, 4), tau |-> Fl(1, -146)],
              [rho |-> Fl(3, -16), tau |-> Fl(1, -146)]}

\* Data terms of the rho updates (the np.dot sums of lines 189, 217, 238).
RhoData == {One}
\* Values of the tau products of lines 191, 220 computed with X in place of
\* X / c.
TauData == {One}
\* The scale c = np.mean(self.X / xtwid) of lines 180, 211, 234: any positive
\* float.
Scales == {One, Fl(1, 150)}
\* Data term of rhot, the tau product of lines 241-243 computed with X in
\* place of X / c, and the scale c.
ThetaData == {[d |-> One, t |-> One, c |-> One],
              [d |-> Fl(1, 8), t |-> One, c |-> Fl(1, 10)],
              [d |-> Fl(1, 8), t |-> One, c |-> Fl(1, 150)]}
\* The L-BFGS result in update_a (lines 148, 166): exp(theta_hat), which
\* underflows to 0 for a theta_hat below about -745, and the warnflag.
SolverOut ==
    {[nu |-> Fl(3, 0), rho |-> Fl(4, 0), warnflag |-> 0],
     [nu |-> Fl(3, 0), rho |-> Fl(4, 0), warnflag |-> 2],
     [nu |-> Zero, rho |-> Fl(4, 0), warnflag |-> 2]}

(***************************************************************************)
(* SF_GaP_NMF: construction                                                *)
(***************************************************************************)
\* compute_expectations (lines 73-87) as the values of the twelve caches.
compute_expectations(rw, tw, rh, th, rt, tt, na, ra) ==
    LET Caches(w, h, t) ==
            [Ew |-> w.Ex, Ewinv |-> w.Exinv, Ewinvinv |-> Reciprocal(w.Exinv),
             Eh |-> h.Ex, Ehinv |-> h.Exinv, Ehinvinv |-> Reciprocal(h.Exinv),
             Et |-> t.Ex, Etinv |-> t.Exinv, Etinvinv |-> Reciprocal(t.Exinv),
             Ea |-> [k \in Ks |-> compute_gamma_expectation(na[k], ra[k]).Ex],
             Eloga |-> [k \in Ks |-> compute_gamma_expectation(na[k], ra[k]).Elogx]]
    IN  Caches(compute_gig_expectations(gamma, rw, tw),
               compute_gig_expectations(Broadcast(b, Ks), rh, th),
               compute_gig_expectations(Broadcast(ThetaShape, Ks), rt, tt))

\* self.compute_expectations() of line 70.
InitMoments(m) ==
    /\ Ew = m.Ew /\ Ewinv = m.Ewinv /\ Ewinvinv = m.Ewinvinv
    /\ Eh = m.Eh /\ Ehinv = m.Ehinv /\ Ehinvinv = m.Ehinvinv
    /\ Et = m.Et /\ Etinv = m.Etinv /\ Etinvinv = m.Etinvinv
    /\ Ea = m.Ea /\ Eloga = m.Eloga

\* __init__, _parse_args, _init (lines 19-71).
\* The arrays the caller passes to SF_GaP_NMF(X, U, gamma, alpha, ...); lines
\* 21-25 store copies of them.  X is kept as a token: what the updates compute
\* from it are inputs of the steps.
CallerArrays ==
    {[X |-> [data |-> "X"], U |-> Fl(3, 0), alpha |-> Fl(2, 0), gamma |-> Broadcast(g, Ks)] :
        g \in {Fl(5, -1), Fl(15, -1)}}

EngineInit ==
    /\ \E a \in CallerArrays :
          /\ args = a
          /\ X = a.X /\ U = a.U /\ alpha = a.alpha /\ gamma = a.gamma
    /\ b = Fl(5, -1)
    /\ beta = Div(Fl(K, 0), Fl(2, 0))
    /\ rhow = Broadcast(Fl(1, 4), Ks)
    /\ \E t \in InitTau : tauw = Broadcast(t, Ks)
    /\ rhoh = Broadcast(Fl(1, 4), Ks)
    /\ \E t \in InitTau : tauh = Broadcast(t, Ks)
    /\ \E th0 \in InitTheta, th \in InitTheta :
          /\ rhot = [k \in Ks |-> IF k = 0 THEN th0.rho ELSE th.rho]
          /\ taut = [k \in Ks |-> IF k = 0 THEN th0.tau ELSE th.tau]
    /\ nua = Broadcast(Fl(1, 4), Ks)
    /\ rhoa = Broadcast(Fl(1, 4), Ks)
    /\ \E m \in {compute_expectations(rhow, tauw, rhoh, tauh, rhot, taut, nua, rhoa)} : InitMoments(m)
    /\ logEexpa = Broadcast(Zero, Ks)
    /\ pc = "idle"
    /\ loop_goodk = <<>>
    /\ loop_i = 0
    /\ log = <<>>
    /\ last = [op |-> "__init__", goodk |-> {}]
    /\ end_goodk = <<>>

\* No dictionary-prior engine has been constructed.
NoDict ==
    /\ phi = [mu |-> <<>>, r |-> <<>>]
    /\ EA = <<>>
    /\ model = [U |-> "none"]
    /\ old_mu_inc = Inf /\ old_r_inc = Inf
    /\ old_U_inc = Inf /\ old_gamma_inc = Inf /\ old_alpha_inc = Inf
    /\ dpc = "none"
    /\ vb_args = [fn |-> "none"]
    /\ loop = [i |-> 0, l |-> 0]
    /\ Eres = <<>>
    /\ run = [outcome |-> "none"]
    /\ rng = 0
    /\ built = {}
    /\ gvpl = [pc |-> "none", calls |-> 0]

Init == EngineInit /\ call = NoCall /\ NoDict

(***************************************************************************)
(* SF_GaP_NMF: operations                                                  *)
(***************************************************************************)
\* The order of the steps of update() (lines 92-100).
UpdateOrderThetaFirst == <<"update_h", "goodk", "update_a", "update_theta", "update_w", "clear_badk">>
UpdateOrder == <<"update_h", "goodk", "update_a", "update_w", "update_theta", "clear_badk">>

\* The step of update() that follows step s; "idle" after the last one.
StepAfter(s) ==
    LET i == CHOOSE j \in 1..Len(UpdateOrder) : UpdateOrder[j] = s
    IN  IF i = Len(UpdateOrder) THEN "idle" ELSE UpdateOrder[i + 1]

Done(op, k) == Append(log, [op |-> op, k |-> k])

\* A call of update(): control enters at line 92.
Update ==
    /\ pc = "idle"
    /\ pc' = UpdateOrder[1]
    /\ log' = <<>>
    /\ loop_goodk' = <<>>
    /\ loop_i' = 0
    /\ call' = NoCall
    /\ UNCHANGED <<inputVars, wVars, hVars, tVars, aVars, last, end_goodk, dictVars>>

\* _xbar(goodk) and _xtwid(goodk) (lines 301-312): the reconstructions from
\* the moments and from the reciprocals of the reciprocal moments of the
\* components g.
xbar(g) == SumOver([k \in g |-> Mul(Mul(Ew[k], Et[k]), Eh[k])], g)
xtwid(g) == SumOver([k \in g |-> Mul(Mul(Ewinvinv[k], Etinvinv[k]), Ehinvinv[k])], g)

\* The reconstructions update_w (lines 179, 183), update_h (lines 210, 214)
\* and update_theta (lines 233, 237) work with for the components g: the local
\* xtwid, from which c and xxtwidinvsq are computed, and the one inverted into
\* xbarinv for the rho term.
update_w_recon(g) == [xtwid |-> xtwid(g), xbar |-> xbar(g)]
update_h_recon(g) == [xtwid |-> xtwid(g), xbar |-> xbar(g)]
update_theta_recon(g) == [xtwid |-> xbar(g), xbar |-> xbar(g)]

\* A tau product of lines 191-192, 220-222, 241-243 for component k: exactly 0
\* when one of its factor moments is 0, else the data-dependent value t
\* divided by the scale c (xxtwidinvsq = self.X / c * xtwid**(-2), lines 182,
\* 213, 236).
TauProduct(k, t, c) ==
    IF Ewinvinv[k] = Zero \/ Ehinvinv[k] = Zero \/ Etinvinv[k] = Zero
    THEN Zero ELSE Div(t, c)

\* The components whose moments update_h, update_w, update_theta recompute
\* after the clamp (lines 195, 224, 245).
Refreshed(g) == g

\* The new values update_h computes (lines 209-228) for the components g, from
\* the data term d of rhoh, the value t of the tau product and the scale c.
update_h_values(g, d, t, c) ==
    LET Out(rho1, tau2, m) ==
            [goodk |-> g, rho |-> rho1, tau |-> tau2,
             E |-> Assign(Eh, Refreshed(g), m.Ex),
             Einv |-> Assign(Ehinv, Refreshed(g), m.Exinv),
             Einvinv |-> Assign(Ehinvinv, Refreshed(g), Reciprocal(m.Exinv))]
        Moments(rho1, tau2) ==
            Out(rho1, tau2,
                compute_gig_expectations(Broadcast(b, Refreshed(g)),
                                         Restrict(rho1, Refreshed(g)),
                                         Restrict(tau2, Refreshed(g))))
    IN  Moments(Assign(rhoh, g, [k \in g |-> Add(b, d)]),
                ClampTau(Assign(tauh, g, [k \in g |-> TauProduct(k, t, c)])))

WriteH(v) ==
    /\ rhoh' = v.rho /\ tauh' = v.tau
    /\ Eh' = v.E /\ Ehinv' = v.Einv /\ Ehinvinv' = v.Einvinv
    /\ last' = [op |-> "update_h", goodk |-> v.goodk]

\* update_h (lines 207-228).
update_h ==
    /\ pc = "update_h"
    /\ GoodkResult.err = "none"
    /\ \E d \in RhoData, t \in TauData, c \in Scales :
          WriteH(update_h_values(GoodkSet, d, t, c))
    /\ log' = Done("update_h", -1)
    /\ pc' = StepAfter("update_h")
    /\ UNCHANGED <<inputVars, wVars, tVars, aVars, loop_goodk, loop_i, end_goodk, call, dictVars>>

WriteGoodk(r) ==
    /\ r.err = "none"
    /\ loop_goodk' = r.goodk
    /\ last' = [op |-> "goodk", goodk |-> Range(r.goodk)]

\* Line 94 of update(): goodk = self.goodk().
update_goodk ==
    /\ pc = "goodk"
    /\ \E q \in argsort(Et) : WriteGoodk(goodk(Et, cut_off_default, q))
    /\ loop_i' = 1
    /\ log' = Done("goodk", -1)
    /\ pc' = StepAfter("goodk")
    /\ UNCHANGED <<inputVars, wVars, hVars, tVars, aVars, end_goodk, call, dictVars>>

\* The assertions of lines 168-169 on the stored exp(theta_hat).
AssertStored(nu, rho) == Gt(nu, Zero) /\ Gt(rho, Zero)

\* The new values update_a(k) computes (lines 166-174) from the solver's s.
update_a_all(k, s) ==
    LET m == compute_gamma_expectation(s.nu, s.rho)
    IN  [nua |-> [j \in Ks |-> s.nu],
         rhoa |-> [j \in Ks |-> s.rho],
         Ea |-> [j \in Ks |-> m.Ex],
         Eloga |-> [j \in Ks |-> m.Elogx],
         logEexpa |-> [j \in Ks |-> comp_log_exp(s.nu, s.rho, U)],
         ok |-> AssertStored(s.nu, s.rho),
         warnflag |-> s.warnflag]
update_a_values(k, s) ==
    LET m == compute_gamma_expectation(s.nu, s.rho)
    IN  [nua |-> [nua EXCEPT ![k] = s.nu],
         rhoa |-> [rhoa EXCEPT ![k] = s.rho],
         Ea |-> [Ea EXCEPT ![k] = m.Ex],
         Eloga |-> [Eloga EXCEPT ![k] = m.Elogx],
         logEexpa |-> [logEexpa EXCEPT ![k] = comp_log_exp(s.nu, s.rho, U)],
         ok |-> AssertStored(s.nu, s.rho),
         warnflag |-> s.warnflag]

\* What update_a(k) reads (lines 103-147): alpha, U and gamma, the column
\* Ew[:, k] in f and df, and nua[:, k], rhoa[:, k] in theta0.
update_a_reads(k) ==
    [alpha |-> alpha, U |-> U, gamma |-> gamma, Ew |-> Ew[k], nua |-> nua[k], rhoa |-> rhoa[k]]

\* Lines 166-174: the store, the assertions, the refresh of the caches.
WriteA(k, v) ==
    /\ nua' = v.nua /\ rhoa' = v.rhoa
    /\ IF v.ok
       THEN /\ Ea' = v.Ea /\ Eloga' = v.Eloga /\ logEexpa' = v.logEexpa
            /\ log' = Done("update_a", k)
            /\ last' = [op |-> "update_a", goodk |-> {k}, warnflag |-> v.warnflag]
            /\ loop_i' = loop_i + 1
            /\ pc' = IF loop_i = Len(loop_goodk) THEN StepAfter("update_a") ELSE pc
       ELSE /\ pc' = "AssertionError"
            /\ UNCHANGED <<Ea, Eloga, logEexpa, log, last, loop_i>>

\* update_a(k) (lines 102-174) for the k the loop of lines 95-96 has reached.
update_a ==
    /\ pc = "update_a"
    /\ loop_i <= Len(loop_goodk)
    /\ \E s \in SolverOut :
          WriteA(loop_goodk[loop_i], update_a_values(loop_goodk[loop_i], s))
    /\ UNCHANGED <<inputVars, wVars, hVars, tVars, loop_goodk, end_goodk, call, dictVars>>

\* The new values update_w computes (lines 178-205) for the components g.
update_w_values(g, d, t, c) ==
    LET Out(rho1, tau2, m) ==
            [goodk |-> g, rho |-> rho1, tau |-> tau2,
             E |-> Assign(Ew, Refreshed(g), m.Ex),
             Einv |-> Assign(Ewinv, Refreshed(g), m.Exinv),
             Einvinv |-> Assign(Ewinvinv, Refreshed(g), Reciprocal(m.Exinv))]
        Moments(rho1, tau2) ==
            Out(rho1, tau2,
                compute_gig_expectations(Restrict(gamma, Refreshed(g)),
                                         Restrict(rho1, Refreshed(g)),
                                         Restrict(tau2, Refreshed(g))))
    IN  Moments(Assign(rhow, g, [k \in g |-> Add(Mul(gamma[k], ExpOf(logEexpa[k])), d)]),
                ClampTau(Assign(tauw, g, [k \in g |-> TauProduct(k, t, c)])))

WriteW(v) ==
    /\ rhow' = v.rho /\ tauw' = v.tau
    /\ Ew' = v.E /\ Ewinv' = v.Einv /\ Ewinvinv' = v.Einvinv
    /\ last' = [op |-> "update_w", goodk |-> v.goodk]

\* update_w (lines 176-205).
update_w ==
    /\ pc = "update_w"
    /\ GoodkResult.err = "none"
    /\ \E d \in RhoData, t \in TauData, c \in Scales :
          WriteW(update_w_values(GoodkSet, d, t, c))
    /\ log' = Done("update_w", -1)
    /\ pc' = StepAfter("update_w")
    /\ UNCHANGED <<inputVars, hVars, tVars, aVars, loop_goodk, loop_i, end_goodk, call, dictVars>>

\* The new values update_theta computes (lines 232-247) for the components g.
update_theta_values(g, x) ==
    LET Out(rho1, tau2, m) ==
            [goodk |-> g, rho |-> rho1, tau |-> tau2,
             E |-> Assign(Et, Refreshed(g), m.Ex),
             Einv |-> Assign(Etinv, Refreshed(g), m.Exinv),
             Einvinv |-> Assign(Etinvinv, Refreshed(g), Reciprocal(m.Exinv))]
        Moments(rho1, tau2) ==
            Out(rho1, tau2,
                compute_gig_expectations(Broadcast(ThetaShape, Refreshed(g)),
                                         Restrict(rho1, Refreshed(g)),
                                         Restrict(tau2, Refreshed(g))))
    IN  Moments(Assign(rhot, g, [k \in g |-> Add(beta, x.d)]),
                ClampTau(Assign(taut, g, [k \in g |-> TauProduct(k, x.t, x.c)])))

WriteTheta(v) ==
    /\ rhot' = v.rho /\ taut' = v.tau
    /\ Et' = v.E /\ Etinv' = v.Einv /\ Etinvinv' = v.Einvinv
    /\ last' = [op |-> "update_theta", goodk |-> v.goodk]

\* update_theta (lines 230-247).
update_theta ==
    /\ pc = "update_theta"
    /\ GoodkResult.err = "none"
    /\ \E x \in ThetaData : WriteTheta(update_theta_values(GoodkSet, x))
    /\ log' = Done("update_theta", -1)
    /\ pc' = StepAfter("update_theta")
    /\ UNCHANGED <<inputVars, wVars, hVars, aVars, loop_goodk, loop_i, end_goodk, call, dictVars>>

\* The posteriors clear_badk resets for the components badk (lines 271-276).
ClearThetaToo(badk) ==
    [rhow |-> Assign(rhow, badk, gamma), tauw |-> Assign(tauw, badk, Broadcast(Zero, Ks)),
     rhoh |-> Assign(rhoh, badk, Broadcast(b, Ks)), tauh |-> Assign(tauh, badk, Broadcast(Zero, Ks)),
     nua |-> Assign(nua, badk, Broadcast(alpha, Ks)), rhoa |-> Assign(rhoa, badk, Broadcast(alpha, Ks)),
     rhot |-> Assign(rhot, badk, Broadcast(beta, Ks)), taut |-> Assign(taut, badk, Broadcast(Zero, Ks))]
ClearKeepsTau(badk) ==
    [rhow |-> Assign(rhow, badk, gamma), tauw |-> tauw,
     rhoh |-> Assign(rhoh, badk, Broadcast(b, Ks)), tauh |-> tauh,
     nua |-> Assign(nua, badk, Broadcast(alpha, Ks)), rhoa |-> Assign(rhoa, badk, Broadcast(alpha, Ks)),
     rhot |-> rhot, taut |-> taut]
Cleared(badk) ==
    [rhow |-> Assign(rhow, badk, gamma), tauw |-> Assign(tauw, badk, Broadcast(Zero, Ks)),
     rhoh |-> Assign(rhoh, badk, Broadcast(b, Ks)), tauh |-> Assign(tauh, badk, Broadcast(Zero, Ks)),
     nua |-> Assign(nua, badk, Broadcast(alpha, Ks)), rhoa |-> Assign(rhoa, badk, Broadcast(alpha, Ks)),
     rhot |-> rhot, taut |-> taut]

\* The new values clear_badk computes (lines 269-278) for the good components g.
clear_badk_values(g) ==
    LET Out(c) ==
            [goodk |-> g, nat |-> c,
             mom |-> compute_expectations(c.rhow, c.tauw, c.rhoh, c.tauh,
                                          c.rhot, c.taut, c.nua, c.rhoa),
             logEexpa |-> Assign(logEexpa, Ks \ g, Broadcast(Zero, Ks))]
    IN  Out(Cleared(Ks \ g))

\* The components goodk() returns for the power vector Et_, as a set.
GoodkSetOf(Et_) ==
    Range(goodk(Et_, cut_off_default, CHOOSE q \in argsort(Et_) : TRUE).goodk)

WriteCleared(v) ==
    /\ rhow' = v.nat.rhow /\ tauw' = v.nat.tauw
    /\ rhoh' = v.nat.rhoh /\ tauh' = v.nat.tauh
    /\ rhot' = v.nat.rhot /\ taut' = v.nat.taut
    /\ nua' = v.nat.nua /\ rhoa' = v.nat.rhoa
    /\ Ew' = v.mom.Ew /\ Ewinv' = v.mom.Ewinv /\ Ewinvinv' = v.mom.Ewinvinv
    /\ Eh' = v.mom.Eh /\ Ehinv' = v.mom.Ehinv /\ Ehinvinv' = v.mom.Ehinvinv
    /\ Et' = v.mom.Et /\ Etinv' = v.mom.Etinv /\ Etinvinv' = v.mom.Etinvinv
    /\ Ea' = v.mom.Ea /\ Eloga' = v.mom.Eloga
    /\ logEexpa' = v.logEexpa
    /\ last' = [op |-> "clear_badk", goodk |-> v.goodk]
    /\ end_goodk' = <<GoodkSetOf(v.mom.Et)>>
                    \o (IF end_goodk = <<>> THEN <<>> ELSE <<end_goodk[1]>>)

\* clear_badk (lines 265-278).
clear_badk ==
    /\ pc = "clear_badk"
    /\ GoodkResult.err = "none"
    /\ WriteCleared(clear_badk_values(GoodkSet))
    /\ log' = Done("clear_badk", -1)
    /\ pc' = StepAfter("clear_badk")
    /\ UNCHANGED <<inputVars, loop_goodk, loop_i, call, dictVars>>

\* Values of the score bound() returns (lines 280-299): a sum over the data.
BoundData == {Fl(-1, 2), NaN}

\* A call of goodk() (lines 249-263) between two calls of update(): it returns
\* the good components or raises the IndexError of line 262.  call holds the
\* first method called since update() returned, and what it gave.
goodk_method_sorts ==
    /\ pc = "idle" /\ call = NoCall
    /\ \E q \in argsort(Et) :
          /\ call' = [fn |-> "SF_GaP_NMF.goodk", out |-> goodk(Et, cut_off_default, q)]
          /\ Et' = [k \in Ks |-> Et[flipud(q)[k + 1]]]
    /\ UNCHANGED <<inputVars, wVars, hVars, rhot, taut, Etinv, Etinvinv, aVars, ctlVars, dictVars>>
goodk_method ==
    /\ pc = "idle" /\ call = NoCall
    /\ \E q \in argsort(Et) :
          call' = [fn |-> "SF_GaP_NMF.goodk", out |-> goodk(Et, cut_off_default, q)]
    /\ UNCHANGED <<engineVars, dictVars>>

\* A call of bound() (lines 280-299) between two calls of update(): goodk() of
\* line 283 may raise; else the score is returned.
bound_method ==
    /\ pc = "idle" /\ call = NoCall
    /\ \E score \in BoundData :
          call' = [fn |-> "SF_GaP_NMF.bound",
                   out |-> IF GoodkResult.err = "none"
                           THEN [err |-> "none", score |-> score]
                           ELSE [err |-> GoodkResult.err]]
    /\ UNCHANGED <<engineVars, dictVars>>

Next ==
    \/ Update
    \/ update_h
    \/ update_goodk
    \/ update_a
    \/ update_w
    \/ update_theta
    \/ clear_badk
    \/ goodk_method
    \/ bound_method

Spec == Init /\ [][Next]_vars

(***************************************************************************)
(* Calls of the library functions and of goodk on given arguments          *)
(***************************************************************************)
\* Lengths of the argument arrays.
GoodkLen == 3
GigLen == 2

Pending == [pending |-> TRUE]

\* Power vectors: the vector of the worked example and every vector of
\* GoodkLen entries over four decades of power, ties included.
ExampleEt ==
    [i \in 0..4 |-> <<Fl(10, 0), Fl(5, 0), Fl(1, -8), Fl(2, -1), Fl(1, -10)>>[i + 1]]
\* A vector of equal finite powers whose sum is beyond the float64 range.
HugeEt == [i \in 0..(GoodkLen - 1) |-> Fl(1, 308)]
PowerValues == {Fl(10, 0), Fl(5, 0), Fl(2, -1), Fl(1, -8)}
CutOffs == {cut_off_default, Fl(4, -1)}
GoodkCalls ==
    {[fn |-> "goodk", args |-> [Et |-> v, cut_off |-> c], out |-> Pending] :
        v \in [0..(GoodkLen - 1) -> PowerValues] \cup {ExampleEt, HugeEt},
        c \in CutOffs}

\* Elements (shape, rho, tau) around the 1e-200 threshold; a tau above it
\* comes with a half-integer shape, for which kve is defined here.
GigElements ==
    {[alpha |-> a, beta |-> Fl(2, 0), gamma |-> t] :
        a \in {Fl(-15, -1), Fl(-5, -1), Fl(5, -1), Fl(15, -1)},
        t \in {Zero, Fl(1, -201), Fl(1, -200), Fl(1, -199), One}}
    \cup {[alpha |-> a, beta |-> Fl(2, 0), gamma |-> t] :
             a \in {One, Fl(2, 0)}, t \in {Zero, Fl(1, -200)}}
GigCalls ==
    {[fn |-> "compute_gig_expectations",
      args |-> [alpha |-> [i \in DOMAIN e |-> e[i].alpha],
                beta |-> [i \in DOMAIN e |-> e[i].beta],
                gamma |-> [i \in DOMAIN e |-> e[i].gamma]],
      out |-> Pending] : e \in [0..(GigLen - 1) -> GigElements]}

\* Arguments of comp_log_exp with u / rate on both sides of -1 and of 1e-12.
LogExpCalls ==
    {[fn |-> f, args |-> [alpha |-> a, beta |-> r, U |-> u], out |-> Pending] :
        f \in {"_gap.comp_log_exp", "gamma_gvpl.comp_log_exp"},
        a \in {One, Fl(2, 0)},
        r \in {One, Fl(2, 0)},
        u \in {Fl(-4, 0), Fl(-2, 0), Fl(-1, 0), Fl(-5, -1), Fl(-2, -12),
               Fl(-1, -12), Fl(-1, -13), Zero, Fl(1, -13), Fl(1, -12),
               Fl(2, -12), Fl(3, 0)}}

\* An engine as constructed and one call about to be made.
LibInit ==
    /\ EngineInit
    /\ gamma = Broadcast(Fl(5, -1), Ks)
    /\ tauw = Broadcast(Fl(1, 4), Ks) /\ tauh = Broadcast(Fl(1, 4), Ks)
    /\ rhot = Broadcast(Fl(3, 4), Ks) /\ taut = Broadcast(Fl(1, 4), Ks)
    /\ call \in GoodkCalls \cup GigCalls \cup LogExpCalls
    /\ NoDict

call_goodk ==
    /\ call.fn = "goodk" /\ call.out = Pending
    /\ \E q \in argsort(call.args.Et) :
          call' = [call EXCEPT !.out = goodk(call.args.Et, call.args.cut_off, q)]
    /\ UNCHANGED <<engineVars, dictVars>>

call_compute_gig_expectations ==
    /\ call.fn = "compute_gig_expectations" /\ call.out = Pending
    /\ call' = [call EXCEPT !.out = compute_gig_expectations(call.args.alpha,
                                                             call.args.beta,
                                                             call.args.gamma)]
    /\ UNCHANGED <<engineVars, dictVars>>

call_comp_log_exp ==
    /\ call.fn = "_gap.comp_log_exp" /\ call.out = Pending
    /\ call' = [call EXCEPT !.out = comp_log_exp(call.args.alpha, call.args.beta,
                                                 call.args.U)]
    /\ UNCHANGED <<engineVars, dictVars>>

call_comp_log_exp_gvpl ==
    /\ call.fn = "gamma_gvpl.comp_log_exp" /\ call.out = Pending
    /\ call' = [call EXCEPT !.out = comp_log_exp_gvpl(call.args.alpha, call.args.beta,
                                                      call.args.U)]
    /\ UNCHANGED <<engineVars, dictVars>>

LibNext ==
    \/ call_goodk
    \/ call_compute_gig_expectations
    \/ call_comp_log_exp
    \/ call_comp_log_exp_gvpl

SpecLib == LibInit /\ [][LibNext]_vars


(***************************************************************************)
(* np.random: the process-wide generator                                   *)
(***************************************************************************)
\* Number of generator states told apart.
RngStates == 3
RngRange == 0..(RngStates - 1)

\* Seeds passed to the constructors; NoSeed stands for seed=None.
NoSeed == -1
Seeds == {NoSeed, 0, 1}

\* np.random.seed(seed): the state the seed determines.
SeedState(seed) == seed % RngStates
\* The generator after n more calls of np.random.randn / np.random.gamma.
Advance(g, n) == (g + n) % RngStates

\* np.random.randn(...) and np.random.gamma(smoothness, 1. / smoothness, ...)
\* drawn when the generator is in state g: a fixed function of the state; the
\* gamma draws are positive and lie around 1.
Randn(g) == [randn |-> g]
GammaDraw(g) == Fl(9 + g, -1)

(***************************************************************************)
(* dict_prior.py: the dictionary-prior engine SF_Dict                      *)
(***************************************************************************)
\* Number of atoms (constructor argument L) and of frames (rows of W).
L == 2
T == 2
\* Largest maxiter passed to vb_e.
MaxIter == 2
\* Number of calls of vb_e and vb_m followed on one engine.
MaxCalls == 2

Ls == 0..(L - 1)
Ts == 0..(T - 1)

\* _comp_expect (lines 48-49) of one column: EA[:, l] = exp(mu + 1 / (2 r)),
\* EA2[:, l] = exp(2 mu + 2 / r) and ElogA[:, l] = mu.  An exponential is kept
\* as the multiple of mu and the term added to it in its argument; mu and r are
\* the columns the three moments were computed from.
comp_expect(mu_, r_) ==
    [mu |-> mu_, r |-> r_,
     EA |-> [t \in DOMAIN r_ |-> [times_mu |-> 1, plus |-> Div(One, Mul(Fl(2, 0), r_[t]))]],
     EA2 |-> [t \in DOMAIN r_ |-> [times_mu |-> 2, plus |-> Div(Fl(2, 0), r_[t])]],
     ElogA |-> mu_]

\* _init_variational (lines 40-46) with the generator in state g.  A cell of mu
\* is kept as the number of times it has been solved for since it was drawn.
init_variational(g) ==
    [mu |-> [l \in Ls |-> [t \in Ts |-> 0]],
     r |-> [l \in Ls |-> [t \in Ts |-> GammaDraw(Advance(g, 1))]]]

\* The generator state __init__ draws from (lines 19-24); seed=None reseeds
\* from the operating system, which gives any state.
SeededStates(seed, g) == IF seed = NoSeed THEN RngRange ELSE {SeedState(seed)}

\* _init (lines 27-38) with the generator in state g.
dict_init(g) ==
    [model |-> [U |-> [draw |-> Randn(g), solved |-> [l \in Ls |-> 0]],
                alpha |-> GammaDraw(Advance(g, 1)),
                gamma |-> Div(GammaDraw(Advance(g, 2)), Fl(2, 0))],
     phi |-> init_variational(Advance(g, 3)),
     rng |-> Advance(g, 5)]

\* The attributes of a constructed engine.
Constructed(c) ==
    /\ model = c.model
    /\ phi = c.phi
    /\ EA = [l \in Ls |-> comp_expect(c.phi.mu[l], c.phi.r[l])]
    /\ rng = c.rng
    /\ old_mu_inc = Inf /\ old_r_inc = Inf
    /\ old_U_inc = Inf /\ old_gamma_inc = Inf /\ old_alpha_inc = Inf

Idle == [outcome |-> "none", calls |-> 0]

\* SF_Dict.__init__ (lines 15-25) in a process whose generator is in any state.
DictInit ==
    /\ \E seed \in Seeds, g0 \in RngRange :
          \E g \in SeededStates(seed, g0) : Constructed(dict_init(g))
    /\ dpc = "idle"
    /\ vb_args = [fn |-> "__init__"]
    /\ loop = [i |-> 0, l |-> 0]
    /\ Eres = <<>>
    /\ run = Idle
    /\ built = {}

\* conv_check values passed to vb_e and vb_m; 3 stands for every value other
\* than 1 and 2.
ConvChecks == {1, 2, 3}

\* The default tolerances of vb_e (line 51) and vb_m (line 144).
atol_e == Fl(1, -3)
atol_m == Fl(1, -2)

VbeArgs ==
    {[fn |-> "vb_e", cold_start |-> c, conv_check |-> k, maxiter |-> m, atol |-> atol_e] :
        c \in BOOLEAN, k \in ConvChecks, m \in {0, MaxIter}}
VbmArgs == {[fn |-> "vb_m", conv_check |-> k, atol |-> atol_m] : k \in ConvChecks}

\* The increments of mu and of sqrt(1 / r) (lines 83-84): below, at and above
\* atol.
Diffs_e(atol) == {<<Zero, Zero>>, <<atol, atol>>, <<Zero, One>>, <<One, One>>}

\* vb_e (lines 51-75, 96-98) up to the first call of update_phi.  A warm start
\* is taken while the cells have been solved for at most MaxIter times.
StartRun(a) ==
    [passes |-> 0, atoms |-> <<>>, met |-> FALSE, solves |-> <<>>, seen |-> <<>>,
     before |-> [model |-> model, phi |-> phi, EA |-> EA],
     calls |-> run.calls + 1,
     outcome |-> IF a.cold_start /\ a.maxiter = 0 THEN "return" ELSE "running"]

vb_e ==
    /\ dpc = "idle"
    /\ run.calls < MaxCalls
    /\ \E a \in VbeArgs :
          /\ vb_args' = a
          /\ run' = StartRun(a)
          /\ IF a.cold_start
             THEN /\ \E p \in {init_variational(rng)} :
                        /\ phi' = p
                        /\ EA' = [l \in Ls |-> comp_expect(p.mu[l], p.r[l])]
                  /\ rng' = Advance(rng, 2)
                  /\ old_mu_inc' = Inf /\ old_r_inc' = Inf
                  /\ dpc' = IF a.maxiter = 0 THEN "idle" ELSE "update_phi"
             ELSE /\ \A l \in Ls, t \in Ts : phi.mu[l][t] <= MaxIter
                  /\ dpc' = "update_phi"
                  /\ UNCHANGED <<phi, EA, rng, old_mu_inc, old_r_inc>>
    /\ loop' = [i |-> 0, l |-> 0]
    /\ UNCHANGED <<model, old_U_inc, old_gamma_inc, old_alpha_inc, Eres, built, gvpl, engineVars, call>>

\* Line 121: the residual update_phi(l) works with, as the moments and the U
\* it is computed from: V - dot(EA, U) + outer(EA[:, l], U[l, :]) is the sum
\* over the atoms other than l.
Eres_all(l) == [EA |-> EA, U |-> model.U]
Eres_of(l) == [EA |-> [j \in Ls \ {l} |-> EA[j]], U |-> model.U]

\* Results of the solve for one frame: the warnflag of fmin_l_bfgs_b (line
\* 123), the curvature tmp_r = _df2 at its result (line 124), which is nan when
\* V has an infinite entry, and the curvature at the result of minimize_scalar
\* (line 137) were it called.
Converged == [warnflag |-> 0, tmp_r |-> Fl(2, 0), brent |-> Fl(2, 0)]
AbnormalSolves ==
    {[warnflag |-> 2, tmp_r |-> Fl(2, 0), brent |-> Fl(2, 0)],
     [warnflag |-> 2, tmp_r |-> Zero, brent |-> Fl(2, 0)],
     [warnflag |-> 2, tmp_r |-> Zero, brent |-> Fl(-1, 0)],
     [warnflag |-> 0, tmp_r |-> NaN, brent |-> Fl(2, 0)]}
\* The solves of the T frames of one update_phi call: at most one of them is
\* abnormal.
ColumnSolves ==
    {[t \in Ts |-> Converged]}
    \cup {[t \in Ts |-> IF t = t0 THEN o ELSE Converged] : t0 \in Ts, o \in AbnormalSolves}

\* Whether lines 126-138 run: tmp_r <= 0.
FallbackOnWarnflag(o) == o.warnflag # 0
Fallback(o) == Le(o.tmp_r, Zero)

\* The tmp_r stored in self.r[t, l] (line 139): the curvature at the result of
\* minimize_scalar when the fallback ran (line 137), else that of line 124.
stored_lbfgs(o) == o.tmp_r
stored_r(o) == IF Fallback(o) THEN o.brent ELSE o.tmp_r

\* What one frame's iteration of the loop of lines 122-139 did: the solver's
\* warnflag and curvature, whether and how often minimize_scalar ran, which
\* result mu[t, l] holds at the end (lines 123, 136) and at which result the
\* stored curvature was taken (lines 124, 137).
FrameLog(o, res) ==
    [warnflag |-> o.warnflag, tmp_r |-> o.tmp_r, fallback |-> Fallback(o),
     brent_runs |-> IF Fallback(o) THEN 1 ELSE 0,
     mu_is |-> IF Fallback(o) THEN "res.x" ELSE "lbfgs",
     r_at |-> IF Fallback(o) THEN "res.x" ELSE "lbfgs",
     brent |-> o.brent,
     Eres |-> res]

\* Lines 121-139 of update_phi(l) for the solves col: the residual, the new
\* columns of mu and r, and what each frame did with which residual.
update_phi_values(l, col) ==
    LET Out(res) ==
            [Eres |-> res,
             mu |-> [t \in Ts |-> phi.mu[l][t] + 1],
             r |-> [t \in Ts |-> stored_r(col[t])],
             solves |-> [t \in Ts |-> FrameLog(col[t], res)]]
    IN  Out(Eres_of(l))

\* assert(np.all(self.r[:, l] > 0)) of line 141.
AssertPositive(r_) == \A t \in Ts : Gt(r_[t], Zero)

\* Where control goes when update_phi(l) has returned: the next atom, or the
\* end of the pass (line 82), or the end of a warm-start vb_e (line 99).
AfterAtom(l) ==
    IF l + 1 < L THEN "update_phi"
    ELSE IF vb_args.cold_start THEN "check" ELSE "idle"

WritePhi(l, v) ==
    /\ phi' = [mu |-> [phi.mu EXCEPT ![l] = v.mu], r |-> [phi.r EXCEPT ![l] = v.r]]
    /\ Eres' = v.Eres
    /\ IF AssertPositive(v.r)
       THEN /\ EA' = [EA EXCEPT ![l] = comp_expect(v.mu, v.r)]
            /\ dpc' = AfterAtom(l)
            /\ loop' = [loop EXCEPT !.l = @ + 1]
            /\ run' = [run EXCEPT !.atoms = Append(@, l),
                                  !.solves = v.solves,
                                  !.outcome = IF AfterAtom(l) = "idle" THEN "return" ELSE @,
                                  !.passes = IF AfterAtom(l) = "idle" THEN @ + 1 ELSE @]
       ELSE /\ dpc' = "AssertionError"
            /\ run' = [run EXCEPT !.atoms = Append(@, l),
                                  !.solves = v.solves,
                                  !.outcome = "AssertionError"]
            /\ UNCHANGED <<EA, loop>>

\* update_phi(l) (lines 101-142) for the l the loop of lines 80-81 or 98-99 has
\* reached.
update_phi ==
    /\ dpc = "update_phi"
    /\ \E col \in ColumnSolves : WritePhi(loop.l, update_phi_values(loop.l, col))
    /\ UNCHANGED <<model, oldIncVars, vb_args, rng, built, gvpl, engineVars, call>>

\* The convergence tests of vb_e (lines 87, 90) and of vb_m (lines 171, 174).
conv1_e_strict(mu_diff, sigma_diff, atol) == Lt(mu_diff, atol) /\ Lt(sigma_diff, atol)
conv1_e(mu_diff, sigma_diff, atol) == Le(mu_diff, atol) /\ Le(sigma_diff, atol)
conv2_e(mu_diff, sigma_diff, atol) ==
    Le(Sub(old_mu_inc, mu_diff), atol) /\ Le(Sub(old_r_inc, sigma_diff), atol)
conv1_m(U_diff, sigma_diff, alpha_diff, atol) ==
    Lt(U_diff, atol) /\ Lt(sigma_diff, atol) /\ Lt(alpha_diff, atol)
conv2_m(U_diff, sigma_diff, alpha_diff, atol) ==
    /\ Lt(Sub(old_U_inc, U_diff), atol)
    /\ Lt(Sub(old_gamma_inc, sigma_diff), atol)
    /\ Lt(Sub(old_alpha_inc, alpha_diff), atol)

\* Lines 86-95 for the increments of the pass: "break", "continue" or
\* "ValueError".
vb_e_test(conv_check, mu_diff, sigma_diff, atol) ==
    IF conv_check = 1
    THEN (IF conv1_e(mu_diff, sigma_diff, atol) THEN "break" ELSE "continue")
    ELSE IF conv_check = 2
    THEN (IF conv2_e(mu_diff, sigma_diff, atol) THEN "break" ELSE "continue")
    ELSE "ValueError"

\* for i in xrange(maxiter) (line 76): whether pass i was the last one.
LoopOverLate(i, maxiter) == i >= maxiter
LoopOver(i, maxiter) == i + 1 >= maxiter

\* The end of a pass of a cold-start vb_e (lines 82-95) and the loop control of
\* line 76.
EndPass(verdict, mu_diff, sigma_diff) ==
    /\ run' = [run EXCEPT !.passes = @ + 1,
                          !.met = (verdict = "break"),
                          !.seen = [mu_diff |-> mu_diff, sigma_diff |-> sigma_diff,
                                    old_mu_inc |-> old_mu_inc, old_r_inc |-> old_r_inc],
                          !.atoms = IF verdict = "continue" /\ ~LoopOver(loop.i, vb_args.maxiter)
                                    THEN <<>> ELSE @,
                          !.outcome = IF verdict = "ValueError" THEN "ValueError"
                                      ELSE IF verdict = "break" \/ LoopOver(loop.i, vb_args.maxiter)
                                      THEN "return" ELSE @]
    /\ dpc' = IF verdict = "ValueError" THEN "ValueError"
              ELSE IF verdict = "break" \/ LoopOver(loop.i, vb_args.maxiter) THEN "idle"
              ELSE "update_phi"
    /\ loop' = IF verdict = "continue" THEN [i |-> loop.i + 1, l |-> 0] ELSE loop
    /\ IF verdict = "continue" /\ vb_args.conv_check = 2
       THEN old_mu_inc' = mu_diff /\ old_r_inc' = sigma_diff
       ELSE UNCHANGED <<old_mu_inc, old_r_inc>>

vb_e_check ==
    /\ dpc = "check"
    /\ \E d \in Diffs_e(vb_args.atol) :
          EndPass(vb_e_test(vb_args.conv_check, d[1], d[2], vb_args.atol), d[1], d[2])
    /\ UNCHANGED <<phi, EA, model, old_U_inc, old_gamma_inc, old_alpha_inc, vb_args, Eres,
                   rng, built, gvpl, engineVars, call>>

\* exp(eta_hat) of the L-BFGS result in update_alpha (lines 220-221); exp
\* underflows to 0 below about -745.
AlphaOut == {One, Zero}
\* The mean of line 208, whose reciprocal is the new gamma: it is inf when V =
\* log(W) has an infinite entry (W has a 0).
GammaMean == {Fl(4, 0), Inf}
\* The increments of U, sqrt(1 / gamma) and alpha (lines 166-168).
Diffs_m(atol) ==
    {<<Zero, Zero, Zero>>, <<Zero, Zero, atol>>, <<One, One, One>>}

\* Lines 170-181 for the increments d: "True" or "False" returned, or
\* "ValueError" raised.
vb_m_test(conv_check, d, atol) ==
    IF conv_check = 1
    THEN (IF conv1_m(d[1], d[2], d[3], atol) THEN "True" ELSE "False")
    ELSE IF conv_check = 2
    THEN (IF conv2_m(d[1], d[2], d[3], atol) THEN "True" ELSE "False")
    ELSE "ValueError"

\* update_u(l) (lines 183-193) on the dictionary U_: row l is replaced by the
\* L-BFGS result.  A row of U is kept as the number of times it has been solved
\* for since it was drawn.
update_u(U_, l) == [U_ EXCEPT !.solved[l] = @ + 1]

\* U after update_u for the atoms 0 .. n-1 in this order (lines 161-162).
RECURSIVE UAfter(_, _)
UAfter(U_, n) == IF n = 0 THEN U_ ELSE update_u(UAfter(U_, n - 1), n - 1)

\* What the steps of lines 161-164 read of the model parameters, in the order
\* they run: update_u(l) builds Eres from the whole self.U (line 191),
\* update_gamma reads self.U (lines 206-208), update_alpha reads self.alpha
\* (line 219) and, like the other two, the moments of the E-step.
vb_m_steps_alpha_first(m) ==
    <<[op |-> "update_alpha", l |-> -1, reads |-> [alpha |-> m.alpha, EA |-> EA]]>>
    \o [q \in 1..L |->
           [op |-> "update_u", l |-> q - 1, reads |-> [U |-> UAfter(m.U, q - 1), EA |-> EA]]]
    \o <<[op |-> "update_gamma", l |-> -1, reads |-> [U |-> UAfter(m.U, L), EA |-> EA]]>>
vb_m_steps(m) ==
    [q \in 1..L |->
        [op |-> "update_u", l |-> q - 1, reads |-> [U |-> UAfter(m.U, q - 1), EA |-> EA]]]
    \o <<[op |-> "update_gamma", l |-> -1, reads |-> [U |-> UAfter(m.U, L), EA |-> EA]],
         [op |-> "update_alpha", l |-> -1, reads |-> [alpha |-> m.alpha, EA |-> EA]]>>

\* update_u for every atom, update_gamma, update_alpha (lines 161-164).
vb_m_updates(mean, alpha_hat) ==
    [U |-> UAfter(model.U, L), alpha |-> alpha_hat, gamma |-> Div(One, mean)]

EndM(a, verdict, d) ==
    /\ vb_args' = a
    /\ run' = [outcome |-> IF verdict = "ValueError" THEN "ValueError" ELSE "return",
               calls |-> run.calls + 1,
               ret |-> verdict,
               steps |-> vb_m_steps(model),
               before |-> [model |-> model, phi |-> phi, EA |-> EA],
               seen |-> [d |-> d, old_U_inc |-> old_U_inc, old_gamma_inc |-> old_gamma_inc,
                         old_alpha_inc |-> old_alpha_inc]]
    /\ dpc' = IF verdict = "ValueError" THEN "ValueError" ELSE "idle"
    /\ IF verdict = "False" /\ a.conv_check = 2
       THEN old_U_inc' = d[1] /\ old_gamma_inc' = d[2] /\ old_alpha_inc' = d[3]
       ELSE UNCHANGED <<old_U_inc, old_gamma_inc, old_alpha_inc>>

\* vb_m (lines 144-181).
vb_m ==
    /\ dpc = "idle"
    /\ run.calls < MaxCalls
    /\ \E mean \in GammaMean, alpha_hat \in AlphaOut : model' = vb_m_updates(mean, alpha_hat)
    /\ \E a \in VbmArgs, d \in Diffs_m(atol_m) : EndM(a, vb_m_test(a.conv_check, d, a.atol), d)
    /\ UNCHANGED <<phi, EA, old_mu_inc, old_r_inc, loop, Eres, rng, built, gvpl, engineVars, call>>

(***************************************************************************)
(* gamma_gvpl.py: the engine SF_Dict with Gamma variational posteriors     *)
(***************************************************************************)
\* Number of frequency bins (columns of W and of U).
F == 2
Fs == 0..(F - 1)

\* The engine as constructed (lines 17-47).  A cell of U, gamma, alpha and a
\* row of (a, b) are kept as the number of times they have been solved for
\* since they were drawn; positive tells whether the stored a[t] and b[t] are
\* > 0; EA[t] is the (a, b)[t] the moments EA[t], ElogA[t] were computed from.
gvpl_row == [solved |-> 0, positive |-> TRUE]
gvpl_new ==
    [U |-> [l \in Ls |-> [f \in Fs |-> 0]],
     gamma |-> 0,
     alpha |-> 0,
     ab |-> [t \in Ts |-> gvpl_row],
     EA |-> [t \in Ts |-> gvpl_row],
     pc |-> "idle",
     calls |-> 0,
     fn |-> "__init__",
     steps |-> <<>>]

\* Whether exp(theta_hat) of the L-BFGS result of update_theta_batch(t) is > 0
\* in both halves (lines 158-161), for every frame: at most one is not.
ThetaBatchOut ==
    {[t \in Ts |-> TRUE]} \cup {[t \in Ts |-> t # t0] : t0 \in Ts}

\* The frames update_theta_batch runs for in the loop of line 77: all of them,
\* or those up to the first one whose assertion fails.
FramesRun(out) ==
    {t \in Ts : \A s \in Ts : (s < t) => out[s]}

\* vb_e (lines 49-93): the re-initialization of line 72 on a cold start, then
\* update_theta_batch(t) for t = 0 .. T-1; each stores a[t], b[t] (line 158),
\* asserts (lines 160-161) and refreshes EA[t], ElogA[t] (line 162).
gvpl_vb_e_values(g, cold_start, out) ==
    LET ab0 == IF cold_start THEN [t \in Ts |-> gvpl_row] ELSE g.ab
        ab1 == [t \in Ts |->
                   IF t \in FramesRun(out)
                   THEN [solved |-> ab0[t].solved + 1, positive |-> out[t]]
                   ELSE ab0[t]]
        EA0 == IF cold_start THEN [t \in Ts |-> gvpl_row] ELSE g.EA
    IN  [g EXCEPT !.ab = ab1,
                  !.EA = [t \in Ts |-> IF t \in FramesRun(out) /\ out[t] THEN ab1[t] ELSE EA0[t]],
                  !.pc = IF \A t \in Ts : out[t] THEN "idle" ELSE "AssertionError",
                  !.calls = @ + 1,
                  !.fn = "vb_e",
                  !.steps = [q \in 1..Cardinality(FramesRun(out)) |->
                                [op |-> "update_theta_batch", i |-> q - 1,
                                 reads |-> [U |-> g.U, gamma |-> g.gamma, alpha |-> g.alpha]]]]

gvpl_vb_e ==
    /\ gvpl.pc = "idle"
    /\ gvpl.calls < MaxCalls
    /\ \E cold_start \in BOOLEAN, out \in ThetaBatchOut :
          /\ gvpl' = gvpl_vb_e_values(gvpl, cold_start, out)
          /\ rng' = IF cold_start THEN Advance(rng, 2) ELSE rng
    /\ UNCHANGED <<phi, EA, model, oldIncVars, dpc, vb_args, loop, Eres, run, built,
                   engineVars, call>>

\* update_u(l) (lines 261-289) replaces row l of U, update_u_batch(f) (lines
\* 226-259) column f.
gvpl_update_u(U_, l) == [U_ EXCEPT ![l] = [f \in Fs |-> @[f] + 1]]
gvpl_update_u_batch(U_, f) == [l \in Ls |-> [U_[l] EXCEPT ![f] = @ + 1]]

RECURSIVE gvpl_UAfter(_, _, _)
gvpl_UAfter(U_, batch, n) ==
    IF n = 0 THEN U_
    ELSE IF batch THEN gvpl_update_u_batch(gvpl_UAfter(U_, batch, n - 1), n - 1)
    ELSE gvpl_update_u(gvpl_UAfter(U_, batch, n - 1), n - 1)

\* The steps of vb_m (lines 191-212) in the order they run, with what each
\* reads of U, gamma and alpha: update_u_batch(f) for f = 0 .. F-1 when batch,
\* else update_u(l) for l = 0 .. L-1; then update_gamma, then update_alpha.
\* update_u_batch(f) reads column f of U only, update_u(l), which builds Eres
\* from the other rows, and update_gamma the whole U; update_alpha reads alpha.
gvpl_vb_m_steps(g, batch) ==
    LET n == IF batch THEN F ELSE L
    IN  [q \in 1..n |->
            [op |-> IF batch THEN "update_u_batch" ELSE "update_u", i |-> q - 1,
             reads |-> [U |-> gvpl_UAfter(g.U, batch, q - 1), gamma |-> g.gamma]]]
        \o <<[op |-> "update_gamma", i |-> -1,
              reads |-> [U |-> gvpl_UAfter(g.U, batch, n), gamma |-> g.gamma]],
             [op |-> "update_alpha", i |-> -1, reads |-> [alpha |-> g.alpha]]>>

\* vb_m (lines 164-224).
gvpl_vb_m_values(g, batch) ==
    [g EXCEPT !.U = gvpl_UAfter(g.U, batch, IF batch THEN F ELSE L),
              !.gamma = @ + 1,
              !.alpha = @ + 1,
              !.calls = @ + 1,
              !.fn = IF batch THEN "vb_m(batch=True)" ELSE "vb_m",
              !.steps = gvpl_vb_m_steps(g, batch)]

gvpl_vb_m ==
    /\ gvpl.pc = "idle"
    /\ gvpl.calls < MaxCalls
    /\ \E batch \in BOOLEAN : gvpl' = gvpl_vb_m_values(gvpl, batch)
    /\ UNCHANGED <<phi, EA, model, oldIncVars, dpc, vb_args, loop, Eres, run, rng, built,
                   engineVars, call>>

\* The process works with one engine: the calls of vb_e and vb_m start on an
\* untouched SF_GaP_NMF, the steps of update() before the first of them.
GapAlone == run.calls = 0 /\ gvpl.calls = 0
DictAlone == pc = "idle" /\ last.op = "__init__" /\ gvpl.calls = 0
GvplAlone == pc = "idle" /\ last.op = "__init__" /\ run.calls = 0

DictNext ==
    \/ DictAlone /\ vb_e
    \/ update_phi
    \/ vb_e_check
    \/ DictAlone /\ vb_m
    \/ GapAlone /\ Update
    \/ GapAlone /\ update_h
    \/ GapAlone /\ update_goodk
    \/ GapAlone /\ update_a
    \/ GapAlone /\ update_w
    \/ GapAlone /\ update_theta
    \/ GapAlone /\ clear_badk
    \/ GvplAlone /\ gvpl_vb_e
    \/ GvplAlone /\ gvpl_vb_m

\* The engines as constructed, then any calls of vb_e and vb_m or of update().
DictStart ==
    /\ EngineInit
    /\ gamma = Broadcast(Fl(5, -1), Ks)
    /\ tauw = Broadcast(Fl(1, 4), Ks) /\ tauh = Broadcast(Fl(1, 4), Ks)
    /\ rhot = Broadcast(Fl(3, 4), Ks) /\ taut = Broadcast(Fl(1, 4), Ks)
    /\ call = NoCall
    /\ DictInit
    /\ gvpl = gvpl_new

SpecDict == DictStart /\ [][DictNext]_vars

\* vb_e is sequential code: once called it takes its next step.  The calls
\* themselves are left to the caller.
SpecDictFair == SpecDict /\ WF_vars(update_phi) /\ WF_vars(vb_e_check)

(***************************************************************************)
(* Construction of the engines in one process                              *)
(***************************************************************************)
\* Number of engines constructed in one process.
MaxBuilt == 2

\* SF_GaP_NMF._init (sf_gap_nmf.py lines 45-71) with the generator in state g:
\* eight draws, one per parameter array.
gap_init(g) ==
    [params |-> [rhow |-> Mul(Fl(1, 4), GammaDraw(g)),
                 tauw |-> Mul(Fl(1, 4), GammaDraw(Advance(g, 1))),
                 rhoh |-> Mul(Fl(1, 4), GammaDraw(Advance(g, 2))),
                 tauh |-> Mul(Fl(1, 4), GammaDraw(Advance(g, 3))),
                 rhot |-> Mul(Fl(K, 4), GammaDraw(Advance(g, 4))),
                 taut |-> Div(Mul(Fl(1, 4), GammaDraw(Advance(g, 5))), Fl(K, 0)),
                 nua |-> Mul(Fl(1, 4), GammaDraw(Advance(g, 6))),
                 rhoa |-> Mul(Fl(1, 4), GammaDraw(Advance(g, 7)))],
     rng |-> Advance(g, 8)]

\* gamma_gvpl.py SF_Dict._init and _init_variational (lines 29-45) with the
\* generator in state g and the default smoothness.
gvpl_init(g) ==
    [params |-> [U |-> Randn(g),
                 alpha |-> GammaDraw(Advance(g, 1)),
                 gamma |-> GammaDraw(Advance(g, 2)),
                 a |-> Mul(Fl(1, 2), GammaDraw(Advance(g, 3))),
                 b |-> Mul(Fl(1, 2), GammaDraw(Advance(g, 4)))],
     rng |-> Advance(g, 5)]

\* dict_prior.py SF_Dict._init as the same kind of record.
prior_init(g) ==
    [params |-> [model |-> dict_init(g).model, phi |-> dict_init(g).phi],
     rng |-> dict_init(g).rng]

\* The constructed engine joins the engines of the process; the generator is
\* left where the constructor's draws took it.
Build(cls, seed, c) ==
    /\ Cardinality(built) < MaxBuilt
    /\ built' = built \cup {[cls |-> cls, seed |-> seed, params |-> c.params]}
    /\ rng' = c.rng

\* Any other use of np.random in the process.
np_random_draw ==
    /\ rng' = Advance(rng, 1)
    /\ UNCHANGED <<built, engineVars, call, phi, EA, model, oldIncVars, dpc, vb_args,
                   loop, Eres, run, gvpl>>

\* dict_prior.SF_Dict(W, L, smoothness, seed): lines 19-24 reseed the generator.
new_prior_SF_Dict ==
    /\ \E seed \in Seeds :
          \E g \in SeededStates(seed, rng) : Build("dict_prior.SF_Dict", seed, prior_init(g))
    /\ UNCHANGED <<engineVars, call, phi, EA, model, oldIncVars, dpc, vb_args, loop, Eres, run, gvpl>>

\* gamma_gvpl.SF_Dict(W, L, smoothness, seed): lines 21-26 reseed the generator.
new_gvpl_SF_Dict ==
    /\ \E seed \in Seeds :
          \E g \in SeededStates(seed, rng) : Build("gamma_gvpl.SF_Dict", seed, gvpl_init(g))
    /\ UNCHANGED <<engineVars, call, phi, EA, model, oldIncVars, dpc, vb_args, loop, Eres, run, gvpl>>

\* SF_GaP_NMF(X, U, gamma, alpha, K, smoothness, seed): lines 33-36 print the
\* seed and nothing else; _init draws from the generator as it stands.
new_SF_GaP_NMF ==
    /\ \E seed \in Seeds : Build("SF_GaP_NMF", seed, gap_init(rng))
    /\ UNCHANGED <<engineVars, call, phi, EA, model, oldIncVars, dpc, vb_args, loop, Eres, run, gvpl>>

SeedNext == np_random_draw \/ new_prior_SF_Dict \/ new_gvpl_SF_Dict \/ new_SF_GaP_NMF

\* A process that has constructed no engine yet.
SeedStart ==
    /\ EngineInit
    /\ gamma = Broadcast(Fl(5, -1), Ks)
    /\ tauw = Broadcast(Fl(1, 4), Ks) /\ tauh = Broadcast(Fl(1, 4), Ks)
    /\ rhot = Broadcast(Fl(3, 4), Ks) /\ taut = Broadcast(Fl(1, 4), Ks)
    /\ call = NoCall
    /\ NoDict

SpecSeed == SeedStart /\ [][SeedNext]_vars

Returned(fn) == call.fn = fn /\ call.out # Pending

\* C1: a call of goodk returns exactly the components whose Et exceeds
\* cut_off * sum(Et), in descending order of Et, and fails only when there is
\* none; for Et = [10, 5, 1e-8, 0.2, 1e-10] and cut_off 1e-6 it returns
\* [0, 1, 3].
C1_GoodkThreshold ==
    Returned("goodk") =>
        LET Et_ == call.args.Et
            above == {k \in DOMAIN Et_ :
                         Gt(Et_[k], Mul(call.args.cut_off, SumOver(Et_, DOMAIN Et_)))}
            ret == call.out
        IN  /\ (ret.err = "none") <=> (above # {})
            /\ ret.err = "none" =>
                  /\ Len(ret.goodk) = Cardinality(above)
                  /\ Range(ret.goodk) = above
                  /\ \A i, j \in 1..Len(ret.goodk) :
                        i < j => Ge(Et_[ret.goodk[i]], Et_[ret.goodk[j]])
            /\ (Et_ = ExampleEt /\ call.args.cut_off = Fl(1, -6)) =>
                  ret = [err |-> "none", goodk |-> <<0, 1, 3>>]

C1_Witness ==
    /\ Returned("goodk")
    /\ call.args.Et = ExampleEt /\ call.args.cut_off = Fl(1, -6)
    /\ call.out.goodk = <<0, 1, 3>>

\* C7: in the result of compute_gig_expectations an element with tau <= 1e-200
\* has E[x] = shape / rho and E[1/x] = rho / (shape - 1), +inf when shape <= 1;
\* an element with tau > 1e-200 has the Bessel ratios; no E[1/x] is negative.
C7_GigBranchPerElement ==
    (Returned("compute_gig_expectations") /\ call.out.err = "none") =>
        \A i \in DOMAIN call.args.beta :
            LET a == call.args.alpha[i]
                rho_ == call.args.beta[i]
                tau_ == call.args.gamma[i]
            IN  /\ Le(tau_, Fl(1, -200)) =>
                      /\ call.out.Ex[i] = Div(a, rho_)
                      /\ call.out.Exinv[i] = IF Le(a, One) THEN Inf
                                             ELSE Div(rho_, Sub(a, One))
                /\ Gt(tau_, Fl(1, -200)) =>
                      /\ call.out.Ex[i] = GigBranch(a, rho_, tau_).Ex
                      /\ call.out.Exinv[i] = GigBranch(a, rho_, tau_).Exinv
                /\ Le(tau_, Fl(1, -200)) \/ Gt(tau_, Fl(1, -200))
                /\ ~Lt(call.out.Exinv[i], Zero)

C7_Witness ==
    /\ Returned("compute_gig_expectations") /\ call.out.err = "none"
    /\ call.args.gamma[0] = Fl(1, -200) /\ call.args.alpha[0] = Fl(5, -1)
    /\ call.out.Exinv[0] = Inf
    /\ call.args.gamma[1] = Fl(1, -199) /\ call.out.Exinv[1] # Inf

\* C8: compute_gig_expectations raises ValueError, and returns no moments,
\* exactly when some element with tau <= 1e-200 has a negative shape.
C8_GigValueError ==
    Returned("compute_gig_expectations") =>
        LET bad == \E i \in DOMAIN call.args.beta :
                      /\ Le(call.args.gamma[i], Fl(1, -200))
                      /\ Lt(call.args.alpha[i], Zero)
        IN  /\ bad => call.out = [err |-> "ValueError"]
            /\ ~bad => call.out.err = "none" /\ DOMAIN call.out = {"err", "Ex", "Exinv"}

C8_Witness ==
    /\ Returned("compute_gig_expectations")
    /\ call.out.err = "ValueError"
    /\ call.args.alpha[0] = Fl(-5, -1) /\ call.args.gamma[0] = Zero
    /\ call.args.alpha[1] = Fl(-5, -1) /\ call.args.gamma[1] = One

\* C9: _gap.comp_log_exp returns +inf when x = u / rate <= -1, -shape * x when
\* |x| <= 1e-12 and -shape * log(1 + x) otherwise; gamma_gvpl.comp_log_exp
\* returns +inf exactly when x <= -1.
C9_CompLogExpBranches ==
    LET x == Div(call.args.U, call.args.beta)
    IN  /\ Returned("_gap.comp_log_exp") =>
              call.out = IF Le(x, Fl(-1, 0)) THEN Inf
                         ELSE IF Le(AbsF(x), Fl(1, -12))
                              THEN Mul(Neg(call.args.alpha), x)
                              ELSE [coef |-> Neg(call.args.alpha), log |-> Add(One, x)]
        /\ Returned("gamma_gvpl.comp_log_exp") =>
              (call.out = Inf <=> Le(x, Fl(-1, 0)))

C9_Witness ==
    /\ Returned("_gap.comp_log_exp")
    /\ Div(call.args.U, call.args.beta) = Fl(-1, 0)
    /\ call.out = Inf

(***************************************************************************)
(* Properties of update() and its steps                                    *)
(***************************************************************************)
\* The caches compute_expectations would store for the current parameters.
Recomputed == compute_expectations(rhow, tauw, rhoh, tauh, rhot, taut, nua, rhoa)

\* The components whose Et exceeds 1e-6 * sum(Et).
AboveCutOff == {k \in Ks : Gt(Et[k], Mul(Fl(1, -6), SumOver(Et, Ks)))}

\* C2: one call of update() runs update_h, goodk, update_a(k) once for each k
\* of that goodk in its order and for no other component, update_w,
\* update_theta, clear_badk, each once and in this order.
C2_UpdateStepOrder ==
    LET step(op) == [op |-> op, k |-> -1]
        head == <<step("update_h"), step("goodk")>>
        all == head \o [i \in 1..Len(loop_goodk) |-> [op |-> "update_a", k |-> loop_goodk[i]]]
                    \o <<step("update_w"), step("update_theta"), step("clear_badk")>>
        IsPrefix(x, y) == Len(x) <= Len(y) /\ \A i \in 1..Len(x) : x[i] = y[i]
    IN  /\ Len(log) < 2 => IsPrefix(log, head)
        /\ Len(log) >= 2 => IsPrefix(log, all)
        /\ (pc = "idle" /\ log # <<>>) => log = all
        /\ \A i, j \in 1..Len(loop_goodk) : i # j => loop_goodk[i] # loop_goodk[j]
        /\ pc \in {"update_a", "update_w", "update_theta"} => Range(loop_goodk) = AboveCutOff

C2_Witness ==
    /\ pc = "idle"
    /\ Len(log) = 7
    /\ log[3].op = "update_a" /\ log[4].op = "update_a"
    /\ log[7].op = "clear_badk"

\* C3: when clear_badk has returned, every component outside the goodk it
\* used has tauw = tauh = 0, rhow = gamma, rhoh = b, nua = rhoa = alpha,
\* logEexpa = 0, and W and H moments of the Gamma closed form: E[x] =
\* shape / rate and E[1/x] = rate / (shape - 1), +inf when shape <= 1.
C3_ClearBadkResets ==
    last.op = "clear_badk" =>
        \A k \in Ks \ last.goodk :
            /\ tauw[k] = Zero /\ tauh[k] = Zero
            /\ rhow[k] = gamma[k] /\ rhoh[k] = b
            /\ nua[k] = alpha /\ rhoa[k] = alpha
            /\ logEexpa[k] = Zero
            /\ Ew[k] = Div(gamma[k], gamma[k])
            /\ Ewinv[k] = IF Le(gamma[k], One) THEN Inf
                          ELSE Div(gamma[k], Sub(gamma[k], One))
            /\ Eh[k] = Div(b, b)
            /\ Ehinv[k] = IF Le(b, One) THEN Inf ELSE Div(b, Sub(b, One))

C3_Witness ==
    /\ last.op = "clear_badk"
    /\ \E k \in Ks \ last.goodk : gamma[k] = Fl(15, -1) /\ Ewinv[k] = Fl(3, 0)
    /\ \E k \in Ks \ last.goodk : Ehinv[k] = Inf

C6_CachesFresh ==
    last.op # "__init__" /\ last.op # "goodk" =>
        /\ Ew = Recomputed.Ew /\ Ewinv = Recomputed.Ewinv /\ Ewinvinv = Recomputed.Ewinvinv
        /\ Eh = Recomputed.Eh /\ Ehinv = Recomputed.Ehinv /\ Ehinvinv = Recomputed.Ehinvinv
        /\ Et = Recomputed.Et /\ Etinv = Recomputed.Etinv /\ Etinvinv = Recomputed.Etinvinv
        /\ Ea = Recomputed.Ea /\ Eloga = Recomputed.Eloga

CallOver ==
    /\ vb_args.fn \in {"vb_e", "vb_m"}
    /\ dpc \in {"idle", "ValueError", "AssertionError"}

\* C11: every call of the dictionary-prior engine's vb_e or vb_m with a
\* conv_check other than 1 or 2 ends in an error, whatever cold_start and
\* maxiter are.
C11_InvalidModeFatal ==
    (CallOver /\ vb_args.conv_check \notin {1, 2}) =>
        run.outcome \in {"ValueError", "AssertionError"}

ColdStart == vb_args.fn = "vb_e" /\ vb_args.cold_start
AllAtoms == [q \in 1..L |-> q - 1]

\* What holds of every cold-start vb_e: at most maxiter passes; within a pass
\* update_phi is called for the atoms 0, 1, ... in order, once each; a normal
\* return before the cap comes with the criterion met at the end of a pass; an
\* error is the ValueError of an unknown conv_check at the end of the first
\* pass or the AssertionError of update_phi.
ColdStartBounded ==
    ColdStart =>
        /\ run.passes <= vb_args.maxiter
        /\ run.passes >= 1 => run.atoms \in {SubSeq(AllAtoms, 1, n) : n \in 0..L}
        /\ dpc = "update_phi" =>
              /\ run.passes < vb_args.maxiter
              /\ run.atoms = SubSeq(AllAtoms, 1, loop.l)
              /\ loop.l < L
        /\ dpc = "check" => run.atoms = AllAtoms
        /\ dpc = "idle" =>
              /\ run.outcome = "return"
              /\ run.passes = vb_args.maxiter \/ run.met
              /\ run.passes >= 1 => run.atoms = AllAtoms
              /\ vb_args.conv_check \in {1, 2} \/ vb_args.maxiter = 0
        /\ dpc = "ValueError" =>
              /\ run.outcome = "ValueError"
              /\ vb_args.conv_check \notin {1, 2} /\ run.passes = 1 /\ run.atoms = AllAtoms
        /\ dpc = "AssertionError" =>
              /\ run.outcome = "AssertionError"
              /\ run.atoms # <<>>
              /\ \E t \in Ts : ~Gt(phi.r[run.atoms[Len(run.atoms)]][t], Zero)

\* C12: a cold-start vb_e always terminates.  It runs at most maxiter passes,
\* each pass calling update_phi once for every atom 0..L-1; it stops before the
\* cap only when the selected criterion is met, and returns normally when the
\* cap is reached without convergence.  (A call that does not return normally
\* ends with the error of update_phi's assertion or of an unknown conv_check.)
C12_ColdStartTerminates ==
    /\ []ColdStartBounded
    /\ (ColdStart /\ ~CallOver) ~> CallOver

C12_Witness ==
    /\ ColdStart /\ dpc = "idle"
    /\ vb_args.conv_check \in {1, 2}
    /\ vb_args.maxiter = MaxIter
    /\ run.passes = MaxIter
    /\ ~run.met
    /\ run.outcome = "return"

\* The atom the latest update_phi of the running vb_e call worked on.
AtomDone == vb_args.fn = "vb_e" /\ run.atoms # <<>>
LastAtom == run.atoms[Len(run.atoms)]
FailedSolve(f) == f.warnflag # 0

\* C13 as stated: a failed solve never aborts the run.  In update_phi every
\* frame whose L-BFGS solve failed went through the bracketing fallback and the
\* pass went on; update_a never ends in an error.
C13_FailureNeverAborts ==
    /\ AtomDone =>
          \A t \in Ts :
              FailedSolve(run.solves[t]) =>
                  run.solves[t].fallback /\ dpc # "AssertionError"
    /\ pc # "AssertionError"

\* C13: what a failed solve leads to.  update_phi(l) solves every frame of the
\* column whatever the solver reports; the bracketing fallback runs for exactly
\* the frames whose curvature at the L-BFGS result is <= 0, so a failed solve
\* with positive curvature is stored as it is; the call aborts, after the
\* store, exactly when a stored precision is not strictly positive.
\* update_a(k) stores the solver's result whatever its warnflag, and the loop
\* goes on unless a stored value is not strictly positive.
C13_FailureHandling ==
    /\ AtomDone =>
          /\ DOMAIN run.solves = Ts
          /\ \A t \in Ts :
                LET f == run.solves[t]
                IN  /\ f.fallback <=> Le(f.tmp_r, Zero)
                    /\ ~f.fallback => phi.r[LastAtom][t] = f.tmp_r
          /\ dpc = "AssertionError" <=> \E t \in Ts : ~Gt(phi.r[LastAtom][t], Zero)
    /\ (last.op = "update_a" /\ pc \in {"update_a", StepAfter("update_a")}) =>
          \A k \in last.goodk : Gt(nua[k], Zero) /\ Gt(rhoa[k], Zero)
    /\ pc = "AssertionError" =>
          \E k \in Ks : ~(Gt(nua[k], Zero) /\ Gt(rhoa[k], Zero))

\* A failed solve with curvature <= 0 went through the fallback, which gave a
\* positive precision, and the pass went on to the next atom.
C13_Witness ==
    /\ AtomDone
    /\ dpc = "update_phi"
    /\ \E t \in Ts :
          /\ FailedSolve(run.solves[t])
          /\ run.solves[t].fallback
          /\ Gt(phi.r[LastAtom][t], Zero)

\* update_a stored the result of a failed solve and the loop went on.
C13_WitnessGaP ==
    /\ last.op = "update_a"
    /\ last.warnflag # 0
    /\ pc # "AssertionError"

\* A call of vb_e or vb_m has returned normally.
Returned_d == CallOver /\ dpc = "idle" /\ run.outcome = "return"

\* C14 as stated: after every normal return the shape and rate parameters are
\* strictly positive: nua, rhoa, rhow, rhoh, rhot of the GaP-NMF engine, alpha,
\* gamma and the precision r of the dictionary-prior engine.
C14_PositiveAfterReturn ==
    /\ Returned_d =>
          /\ Gt(model.alpha, Zero)
          /\ Gt(model.gamma, Zero)
          /\ \A l \in Ls, t \in Ts : Gt(phi.r[l][t], Zero)
    /\ pc = "idle" =>
          \A k \in Ks :
              /\ Gt(nua[k], Zero) /\ Gt(rhoa[k], Zero)
              /\ Gt(rhow[k], Zero) /\ Gt(rhoh[k], Zero) /\ Gt(rhot[k], Zero)

\* C15: two engines of the same class built in one process from the same
\* non-None seed have the same initial parameters, whatever was drawn from the
\* generator before each construction.
C15_SeedDeterminism ==
    \A e1 \in built, e2 \in built :
        (e1.cls = e2.cls /\ e1.seed = e2.seed /\ e1.seed # NoSeed) =>
            e1.params = e2.params

\* C16: the scale c of update_w, update_h and update_theta is diagnostic only:
\* whenever one of them is about to run, the rho, the tau and the moments it
\* writes are the same for every value of c.
C16_ScaleIsDiagnostic ==
    GoodkResult.err = "none" =>
        /\ pc = "update_w" =>
              \A d \in RhoData, t \in TauData, c1 \in Scales, c2 \in Scales :
                  update_w_values(GoodkSet, d, t, c1) = update_w_values(GoodkSet, d, t, c2)
        /\ pc = "update_h" =>
              \A d \in RhoData, t \in TauData, c1 \in Scales, c2 \in Scales :
                  update_h_values(GoodkSet, d, t, c1) = update_h_values(GoodkSet, d, t, c2)
        /\ pc = "update_theta" =>
              \A x \in ThetaData, y \in ThetaData :
                  (x.d = y.d /\ x.t = y.t) =>
                      update_theta_values(GoodkSet, x) = update_theta_values(GoodkSet, y)

(***************************************************************************)
(* Claims about update_a and the E-step                                    *)
(***************************************************************************)
\* The slice of component j in the arrays update_a writes.
SliceA(j) ==
    [nua |-> nua[j], rhoa |-> rhoa[j], Ea |-> Ea[j], Eloga |-> Eloga[j],
     logEexpa |-> logEexpa[j]]

\* C18: a step of update_a(k) changes nothing but component k's slice of nua,
\* rhoa, Ea, Eloga and logEexpa; when it returns, the three caches of k are
\* those of the new (nua, rhoa); the inputs and every W, H, Theta parameter
\* and moment are unchanged; and what update_a(j) reads for j # k is unchanged,
\* so the results of the loop over goodk do not depend on the order of visit.
C18_UpdateAFrame ==
    [][pc = "update_a" =>
          LET k == loop_goodk[loop_i]
          IN  /\ \A j \in Ks \ {k} : SliceA(j)' = SliceA(j)
              /\ \A j \in Ks \ {k} : update_a_reads(j)' = update_a_reads(j)
              /\ UNCHANGED <<inputVars, wVars, hVars, tVars>>
              /\ pc' # "AssertionError" =>
                    /\ Ea'[k] = compute_gamma_expectation(nua'[k], rhoa'[k]).Ex
                    /\ Eloga'[k] = compute_gamma_expectation(nua'[k], rhoa'[k]).Elogx
                    /\ logEexpa'[k] = comp_log_exp(nua'[k], rhoa'[k], U)]_vars

\* update_a has run for a second component of the loop: its slice holds the
\* solver's result and the slice of a component not visited is as constructed.
C18_Witness ==
    /\ last.op = "update_a"
    /\ Len(log) >= 2
    /\ log[Len(log)].op = "update_a" /\ log[Len(log) - 1].op = "update_a"
    /\ \E k \in last.goodk, j \in Ks \ last.goodk :
          /\ nua[k] = Fl(3, 0)
          /\ nua[j] = Fl(1, 4)

\* C19: the E-step is Gauss-Seidel over atoms.  When update_phi(l) has run,
\* its residual was built from the moments of the atoms other than l as they
\* stood at its call: those of every j < l were computed from the solves of
\* this pass, those of every j > l from the solves of the pass before; every
\* frame was solved with that one residual; and EA[:, l] is refreshed from the
\* new columns of mu and r only when all frames are solved and the assertion
\* has passed.
C19_GaussSeidel ==
    AtomDone =>
        LET l == LastAtom
        IN  /\ DOMAIN Eres.EA = Ls \ {l}
            /\ Eres.U = model.U
            /\ \A j \in Ls \ {l} :
                  /\ Eres.EA[j] = EA[j]
                  /\ EA[j] = comp_expect(phi.mu[j], phi.r[j])
                  /\ \A t \in Ts :
                        Eres.EA[j].mu[t] = IF j < l THEN phi.mu[l][t] ELSE phi.mu[l][t] - 1
            /\ \A t \in Ts : run.solves[t].Eres = Eres
            /\ IF dpc = "AssertionError"
               THEN \A t \in Ts : EA[l].mu[t] = phi.mu[l][t] - 1
               ELSE EA[l] = comp_expect(phi.mu[l], phi.r[l])

\* In the second pass of a cold start update_phi has run for an atom l >= 1:
\* its residual held the moments atom 0 got in this pass.
C19_Witness ==
    /\ AtomDone
    /\ ColdStart
    /\ run.passes >= 1
    /\ LastAtom >= 1
    /\ dpc \in {"update_phi", "check"}
    /\ Eres.EA[0].mu[0] = 2
    /\ phi.mu[LastAtom][0] = 2

\* A pass of a cold-start vb_e has been tested for convergence; vb_m has ended.
PassTested == ColdStart /\ run.passes >= 1 /\ vb_args.conv_check \in {1, 2}
MStepTested == vb_args.fn = "vb_m" /\ vb_args.conv_check \in {1, 2}

\* C20: the convergence checks.  With conv_check = 1 the pass of vb_e just
\* tested met the criterion exactly when the increments of mu and of
\* sqrt(1 / r) were both <= atol, and vb_e goes on exactly when it did not and
\* passes are left; vb_m returns True exactly when its three increments are all
\* < atol.  With conv_check = 2 the same tests apply to the previous increment
\* minus the current one; the previous increments are +infinity at the first
\* test after (re)initialization, which is therefore never met; and they are
\* replaced by the current increments exactly when the criterion is not met.
C20_ConvergenceChecks ==
    /\ PassTested =>
          LET d == run.seen
              a == vb_args.atol
          IN  /\ vb_args.conv_check = 1 =>
                    /\ run.met <=> (Le(d.mu_diff, a) /\ Le(d.sigma_diff, a))
                    /\ old_mu_inc = d.old_mu_inc /\ old_r_inc = d.old_r_inc
              /\ vb_args.conv_check = 2 =>
                    /\ run.met <=> (/\ Le(Sub(d.old_mu_inc, d.mu_diff), a)
                                    /\ Le(Sub(d.old_r_inc, d.sigma_diff), a))
                    /\ run.passes = 1 => (d.old_mu_inc = Inf /\ d.old_r_inc = Inf /\ ~run.met)
                    /\ IF run.met
                       THEN old_mu_inc = d.old_mu_inc /\ old_r_inc = d.old_r_inc
                       ELSE old_mu_inc = d.mu_diff /\ old_r_inc = d.sigma_diff
              /\ run.met => dpc = "idle"
              /\ dpc \in {"update_phi", "check"} => ~run.met
    /\ MStepTested =>
          LET d == run.seen.d
              o == run.seen
              a == vb_args.atol
          IN  /\ run.outcome = "return" /\ dpc = "idle"
              /\ vb_args.conv_check = 1 =>
                    /\ run.ret = "True" <=> (Lt(d[1], a) /\ Lt(d[2], a) /\ Lt(d[3], a))
                    /\ <<old_U_inc, old_gamma_inc, old_alpha_inc>> =
                          <<o.old_U_inc, o.old_gamma_inc, o.old_alpha_inc>>
              /\ vb_args.conv_check = 2 =>
                    /\ run.ret = "True" <=> (/\ Lt(Sub(o.old_U_inc, d[1]), a)
                                             /\ Lt(Sub(o.old_gamma_inc, d[2]), a)
                                             /\ Lt(Sub(o.old_alpha_inc, d[3]), a))
                    /\ o.old_U_inc = Inf => run.ret = "False"
                    /\ run.calls = 1 => o.old_U_inc = Inf
                    /\ IF run.ret = "True"
                       THEN <<old_U_inc, old_gamma_inc, old_alpha_inc>> =
                               <<o.old_U_inc, o.old_gamma_inc, o.old_alpha_inc>>
                       ELSE <<old_U_inc, old_gamma_inc, old_alpha_inc>> = d

\* A cold-start vb_e with conv_check = 2 stopped at its second pass: the first
\* test saw +infinity and stored the increments, the second one was met.
C20_Witness ==
    /\ PassTested
    /\ vb_args.conv_check = 2
    /\ run.passes = 2
    /\ run.met
    /\ dpc = "idle"
    /\ run.seen.old_mu_inc # Inf
    /\ old_mu_inc = run.seen.old_mu_inc

\* C21: in update_phi(l), for every frame t the bracketing minimizer ran at
\* most once, and exactly when the curvature at the L-BFGS result was <= 0;
\* r[t, l] is the curvature at the result mu[t, l] ends with; the call returns
\* normally only with every r[:, l] > 0, and then EA[:, l] = exp(mu + 1 / (2 r)),
\* EA2[:, l] = exp(2 mu + 2 / r) and ElogA[:, l] = mu for the new columns.
C21_UpdatePhiFallback ==
    AtomDone =>
        LET l == LastAtom
        IN  /\ \A t \in Ts :
                  LET f == run.solves[t]
                  IN  /\ f.brent_runs \in {0, 1}
                      /\ f.brent_runs = 1 <=> Le(f.tmp_r, Zero)
                      /\ f.r_at = f.mu_is
                      /\ phi.r[l][t] = IF f.brent_runs = 1 THEN f.brent ELSE f.tmp_r
            /\ dpc # "AssertionError" =>
                  /\ \A t \in Ts : Gt(phi.r[l][t], Zero)
                  /\ \A t \in Ts :
                        /\ EA[l].EA[t] =
                              [times_mu |-> 1, plus |-> Div(One, Mul(Fl(2, 0), phi.r[l][t]))]
                        /\ EA[l].EA2[t] =
                              [times_mu |-> 2, plus |-> Div(Fl(2, 0), phi.r[l][t])]
                  /\ EA[l].ElogA = phi.mu[l]
                  /\ EA[l].mu = phi.mu[l] /\ EA[l].r = phi.r[l]

\* update_phi returned normally after the fallback ran for a frame whose
\* curvature was <= 0: the precision stored is the curvature at the result of
\* the fallback.
C21_Witness ==
    /\ AtomDone
    /\ dpc # "AssertionError"
    /\ \E t \in Ts :
          /\ run.solves[t].brent_runs = 1
          /\ Le(run.solves[t].tmp_r, Zero)
          /\ phi.r[LastAtom][t] = run.solves[t].brent
          /\ EA[LastAtom].r[t] = run.solves[t].brent

(***************************************************************************)
(* Claims about the E-step and the M-step of the dictionary-prior engines  *)
(***************************************************************************)
\* dict_prior.py: vb_e has left U, alpha and gamma as they were at its call;
\* vb_m has left mu, r and the moments as they were, and every step of it read
\* those moments.
DisjointPrior ==
    /\ vb_args.fn = "vb_e" => model = run.before.model
    /\ vb_args.fn = "vb_m" =>
          /\ phi = run.before.phi /\ EA = run.before.EA
          /\ \A q \in DOMAIN run.steps : run.steps[q].reads.EA = EA

\* gamma_gvpl.py: a call of vb_e changes none of U, gamma, alpha; a call of
\* vb_m changes none of a, b, EA.
DisjointGvpl ==
    [][gvpl.pc = "idle" =>
          IF gvpl'.fn = "vb_e"
          THEN gvpl'.U = gvpl.U /\ gvpl'.gamma = gvpl.gamma /\ gvpl'.alpha = gvpl.alpha
          ELSE gvpl'.ab = gvpl.ab /\ gvpl'.EA = gvpl.EA]_gvpl

\* update_gamma and then update_alpha are the last two steps of st; the first
\* read the U left by the steps before it.
EndsGammaAlpha(st, n) ==
    /\ Len(st) = n + 2
    /\ st[n + 1].op = "update_gamma"
    /\ st[n + 2].op = "update_alpha"

\* vb_m of dict_prior.py ran update_u for the atoms 0 .. L-1 in this order,
\* each reading the rows of U written by the ones before it, then
\* update_gamma, which read the new U, then update_alpha.
OrderPrior ==
    vb_args.fn = "vb_m" =>
        LET st == run.steps
            U0 == run.before.model.U
        IN  /\ EndsGammaAlpha(st, L)
            /\ \A q \in 1..L :
                  /\ st[q].op = "update_u" /\ st[q].l = q - 1
                  /\ \A j \in Ls :
                        st[q].reads.U.solved[j] = U0.solved[j] + (IF j < q - 1 THEN 1 ELSE 0)
            /\ \A j \in Ls : st[L + 1].reads.U.solved[j] = U0.solved[j] + 1
            /\ st[L + 1].reads.U = model.U
            /\ st[L + 2].reads.alpha = run.before.model.alpha

\* vb_m of gamma_gvpl.py ran update_u for the atoms 0 .. L-1 in this order,
\* then update_gamma, which read the new U, then update_alpha.
OrderGvplByAtom ==
    LET st == gvpl.steps
    IN  /\ EndsGammaAlpha(st, L)
        /\ \A q \in 1..L : st[q].op = "update_u" /\ st[q].i = q - 1
        /\ \A q \in 2..L, l \in Ls, f \in Fs :
              st[q].reads.U[l][f] = st[1].reads.U[l][f] + (IF l < q - 1 THEN 1 ELSE 0)
        /\ st[L + 1].reads.U = gvpl.U

\* vb_m(batch=True) of gamma_gvpl.py ran update_u_batch for the columns
\* 0 .. F-1 of U in this order, then update_gamma, then update_alpha.
OrderGvplByColumn ==
    LET st == gvpl.steps
    IN  /\ EndsGammaAlpha(st, F)
        /\ \A q \in 1..F : st[q].op = "update_u_batch" /\ st[q].i = q - 1
        /\ \A q \in 2..F, l \in Ls, f \in Fs :
              st[q].reads.U[l][f] = st[1].reads.U[l][f] + (IF f < q - 1 THEN 1 ELSE 0)
        /\ st[F + 1].reads.U = gvpl.U

GvplMStep == gvpl.fn \in {"vb_m", "vb_m(batch=True)"}

\* C22 as stated: E-step and M-step touch disjoint state, and every vb_m of
\* either engine updates U atom by atom for 0 .. L-1, then gamma, then alpha.
C22_AtomOrderInEveryMStep ==
    /\ []DisjointPrior
    /\ DisjointGvpl
    /\ [](OrderPrior /\ (GvplMStep => OrderGvplByAtom))

\* C22: E-step and M-step touch disjoint state; vb_m updates U first, then
\* gamma, then alpha, each step reading the U written by the steps before it.
\* U is updated atom by atom for 0 .. L-1, except in vb_m(batch=True) of
\* gamma_gvpl.py, which updates it column by column for 0 .. F-1.
C22_MStepOrder ==
    /\ []DisjointPrior
    /\ DisjointGvpl
    /\ [](/\ OrderPrior
          /\ gvpl.fn = "vb_m" => OrderGvplByAtom
          /\ gvpl.fn = "vb_m(batch=True)" => OrderGvplByColumn)

\* vb_m(batch=True) of gamma_gvpl.py has run after a vb_e.
C22_Witness ==
    /\ gvpl.fn = "vb_m(batch=True)"
    /\ gvpl.calls = 2
    /\ gvpl.ab[0].solved = 1
    /\ gvpl.U[0][0] = 1
    /\ gvpl.steps[1].op = "update_u_batch"

(***************************************************************************)
(* Claims about the inputs and the good set of SF_GaP_NMF                  *)
(***************************************************************************)
\* C23: the engine treats its inputs as fixed.  No step of update(), and no
\* call of goodk() or bound(), changes X, U, alpha, gamma, b or beta or the
\* arrays the caller passed to the constructor; the engine's X, U, alpha,
\* gamma are the values of the caller's; and a call of goodk() or bound()
\* changes nothing of the engine at all.
C23_InputsFixed ==
    /\ [](X = args.X /\ U = args.U /\ alpha = args.alpha /\ gamma = args.gamma)
    /\ [][/\ UNCHANGED <<X, U, alpha, gamma, b, beta, args>>
          /\ (call' # call /\ call'.fn \in {"SF_GaP_NMF.goodk", "SF_GaP_NMF.bound"}) =>
                UNCHANGED engineVars]_vars

\* bound() has returned a score after a whole update() that cleared a
\* component.
C23_Witness ==
    /\ call.fn = "SF_GaP_NMF.bound"
    /\ call.out.err = "none"
    /\ last.op = "clear_badk"
    /\ pc = "idle"
    /\ GoodkSet # Ks

\* C24: update_w, update_h and update_theta all compute the scale c and the
\* data weighting of tau from x-twiddle, the reconstruction built from
\* Ewinvinv, Etinvinv, Ehinvinv of the good components, and use xbar for the
\* rho term only.
C24_TauFromXtwid ==
    GoodkResult.err = "none" =>
        LET expected == [xtwid |-> xtwid(GoodkSet), xbar |-> xbar(GoodkSet)]
        IN  /\ pc = "update_w" => update_w_recon(GoodkSet) = expected
            /\ pc = "update_h" => update_h_recon(GoodkSet) = expected
            /\ pc = "update_theta" => update_theta_recon(GoodkSet) = expected

\* C25: goodk() never fails and never returns an empty set: for every vector
\* Et of positive finite values with (number of components) * cut_off < 1 the
\* call returns a non-empty sequence that holds a component of largest Et.
C25_GoodkNeverFails ==
    Returned("goodk") =>
        LET Et_ == call.args.Et
            n == Cardinality(DOMAIN Et_)
        IN  (/\ \A k \in DOMAIN Et_ : Gt(Et_[k], Zero) /\ IsFinite(Et_[k])
             /\ Lt(Mul(Fl(n, 0), call.args.cut_off), One)) =>
                /\ call.out.err = "none"
                /\ call.out.goodk # <<>>
                /\ \E k \in Range(call.out.goodk) :
                      \A j \in DOMAIN Et_ : Le(Et_[j], Et_[k])

ClearBadkAgain ==
    LET Same(v) ==
            /\ v.nat = [rhow |-> rhow, tauw |-> tauw, rhoh |-> rhoh, tauh |-> tauh,
                        nua |-> nua, rhoa |-> rhoa, rhot |-> rhot, taut |-> taut]
            /\ v.mom = [Ew |-> Ew, Ewinv |-> Ewinv, Ewinvinv |-> Ewinvinv,
                        Eh |-> Eh, Ehinv |-> Ehinv, Ehinvinv |-> Ehinvinv,
                        Et |-> Et, Etinv |-> Etinv, Etinvinv |-> Etinvinv,
                        Ea |-> Ea, Eloga |-> Eloga]
            /\ v.logEexpa = logEexpa
    IN  Same(clear_badk_values(GoodkSet))

\* clear_badk leaves the natural parameters and the logEexpa slab of every
\* good component as they are.
ClearBadkKeepsGood ==
    \A k \in GoodkSet :
        /\ rhow'[k] = rhow[k] /\ tauw'[k] = tauw[k]
        /\ rhoh'[k] = rhoh[k] /\ tauh'[k] = tauh[k]
        /\ rhot'[k] = rhot[k] /\ taut'[k] = taut[k]
        /\ nua'[k] = nua[k] /\ rhoa'[k] = rhoa[k]
        /\ logEexpa'[k] = logEexpa[k]

\* C27: clear_badk changes no natural parameter and no logEexpa slab of a
\* component inside goodk, does not change Et and so does not change goodk,
\* and a second call in a row would leave the state of the first.
C27_ClearBadkIdempotent ==
    /\ []((pc = "idle" /\ last.op = "clear_badk") =>
              (ClearBadkAgain /\ GoodkSet = last.goodk))
    /\ [][(pc = "clear_badk") => (ClearBadkKeepsGood /\ Et' = Et)]_vars

\* C28: when vb_e or vb_m has ended with the ValueError of an invalid
\* conv_check, the model parameters, the variational parameters and the
\* cached moments are those of before the call; when update_phi has ended
\* with the AssertionError on r, no atom is left with mu, r changed and its
\* moments not refreshed.
C28_ErrorsAtomic ==
    /\ dpc = "ValueError" =>
          /\ model = run.before.model
          /\ phi = run.before.phi
          /\ EA = run.before.EA
    /\ dpc = "AssertionError" =>
          \A l \in Ls : EA[l] = comp_expect(phi.mu[l], phi.r[l])
====
